---- MODULE Spec2Model ----
(***************************************************************************)
(* Model of hadith/corpus/converter.py (the importer: collection identity  *)
(* resolution, document import, subsection resolution, subsection counts)  *)
(* and hadith/corpus/reverseconverter.py (the exporter) over an SQLite     *)
(* store of three tables.                                                  *)
(*                                                                         *)
(* Python strings are sequences of one-character strings, so that          *)
(* lower-casing, replace, substring search, concatenation and split are    *)
(* computed as the code computes them.  Python/JSON/SQL scalar values are  *)
(* tagged records: None/NULL, integers and strings are distinct values.    *)
(***************************************************************************)
EXTENDS Integers, Sequences, FiniteSets, TLC

VARIABLES
    hadithCollection,   \* table hadithCollection: rows in rowid order
    hadithData,         \* table hadithData: rows in rowid order
    hadithSection,      \* table hadithSection: rows in rowid order
    call,               \* the last call made: its name, arguments and what it returned/logged
    out,                \* the files the exporter has written: file name -> content
    pc,                 \* converter main(): the stage it is in
    json_files,         \* converter main(): sorted(glob("*.json")), each [name, content]
    subsection_files,   \* converter main(): sorted(glob("subsection/*.json"))
    summarized_dir,     \* converter main(): the files of summarized/, path -> content
    idx                 \* converter main(): position in the list being iterated

vars == <<hadithCollection, hadithData, hadithSection, call, out,
          pc, json_files, subsection_files, summarized_dir, idx>>

store == <<hadithCollection, hadithData, hadithSection>>
mainVars == <<pc, json_files, subsection_files, summarized_dir, idx>>

(***************************************************************************)
(* Values                                                                  *)
(***************************************************************************)
JNull == [t |-> "null"]
JInt(n) == [t |-> "int", n |-> n]
JStr(s) == [t |-> "str", v |-> s]

\* dict.get(key, default)
Get(d, key, default) == IF key \in DOMAIN d THEN d[key] ELSE default

\* Python truthiness of None, an int or a str
Truthy(x) ==
    CASE x.t = "null" -> FALSE
      [] x.t = "int" -> x.n # 0
      [] x.t = "str" -> x.v # <<>>
      [] OTHER -> TRUE

Digits == <<"0", "1", "2", "3", "4", "5", "6", "7", "8", "9">>

RECURSIVE NatToStr(_)
NatToStr(n) ==
    IF n < 10 THEN <<Digits[n + 1]>>
    ELSE NatToStr(n \div 10) \o <<Digits[(n % 10) + 1]>>

\* str(x) and the f-string conversion {x}
PyStr(x) ==
    CASE x.t = "null" -> <<"N", "o", "n", "e">>
      [] x.t = "int" -> IF x.n < 0 THEN <<"-">> \o NatToStr(-x.n) ELSE NatToStr(x.n)
      [] x.t = "str" -> x.v

(***************************************************************************)
(* Strings                                                                 *)
(***************************************************************************)
UpperCase == <<"A", "B", "C", "D", "E", "F", "G", "H", "I", "J", "K", "L", "M",
               "N", "O", "P", "Q", "R", "S", "T", "U", "V", "W", "X", "Y", "Z">>
LowerCase == <<"a", "b", "c", "d", "e", "f", "g", "h", "i", "j", "k", "l", "m",
               "n", "o", "p", "q", "r", "s", "t", "u", "v", "w", "x", "y", "z">>

LowerChar(c) ==
    IF \E i \in DOMAIN UpperCase : UpperCase[i] = c
    THEN LowerCase[CHOOSE i \in DOMAIN UpperCase : UpperCase[i] = c]
    ELSE c

\* s.lower()
Lower(s) == [i \in DOMAIN s |-> LowerChar(s[i])]

\* s.replace(c, "") for a one-character c
RemoveChar(s, c) == SelectSeq(s, LAMBDA ch : ch # c)

\* sub in s
Contains(s, sub) ==
    \E i \in 0..(Len(s) - Len(sub)) : SubSeq(s, i + 1, i + Len(sub)) = sub

\* s.startswith(p), s.endswith(p)
StartsWith(s, p) == Len(s) >= Len(p) /\ SubSeq(s, 1, Len(p)) = p
EndsWith(s, p) == Len(s) >= Len(p) /\ SubSeq(s, Len(s) - Len(p) + 1, Len(s)) = p

\* the start of the first occurrence of sub in s (0 when there is none)
FindFirst(s, sub) ==
    IF Contains(s, sub)
    THEN CHOOSE i \in 1..(Len(s) - Len(sub) + 1) :
            /\ SubSeq(s, i, i + Len(sub) - 1) = sub
            /\ \A j \in 1..(i - 1) : SubSeq(s, j, j + Len(sub) - 1) # sub
    ELSE 0

\* s.replace(old, new) for an old that cannot overlap itself
RECURSIVE Replace(_, _, _)
Replace(s, old, new) ==
    IF ~Contains(s, old) THEN s
    ELSE LET i == FindFirst(s, old)
         IN  SubSeq(s, 1, i - 1) \o new \o Replace(SubSeq(s, i + Len(old), Len(s)), old, new)

\* s.split("-")[-1]: what follows the last "-" (all of s when it has none)
AfterLastDash(s) ==
    LET dashes == {i \in DOMAIN s : s[i] = "-"}
    IN  IF dashes = {} THEN s
        ELSE SubSeq(s, (CHOOSE i \in dashes : \A j \in dashes : j <= i) + 1, Len(s))

(***************************************************************************)
(* converter.py: helpers / detection                                       *)
(***************************************************************************)
Dash == <<"-">>
DotJson == <<".", "j", "s", "o", "n">>
SubsectionSuffix == <<"-", "s", "u", "b", "s", "e", "c", "t", "i", "o", "n">>
SubsectionJson == SubsectionSuffix \o DotJson
SummarizedSuffix == <<"-", "s", "u", "m", "m", "a", "r", "i", "z", "e", "d">>
Ara == <<"a", "r", "a">>
Eng == <<"e", "n", "g">>
Ind == <<"i", "n", "d">>
Collections == <<"c", "o", "l", "l", "e", "c", "t", "i", "o", "n", "s">>
Arabic == <<"a", "r", "a", "b", "i", "c">>
English == <<"e", "n", "g", "l", "i", "s", "h">>
Bahasa == <<"b", "a", "h", "a", "s", "a">>
Unknown == <<"u", "n", "k", "n", "o", "w", "n">>

get_hadith_data_lang(filename) ==
    IF StartsWith(filename, Ara \o Dash) THEN JStr(Arabic)
    ELSE IF StartsWith(filename, Eng \o Dash) THEN JStr(English)
    ELSE IF StartsWith(filename, Ind \o Dash) THEN JStr(Bahasa)
    ELSE JNull

get_collection_info_lang(filename) ==
    IF filename = Eng \o Dash \o Collections \o DotJson THEN JStr(English)
    ELSE IF filename = Ind \o Dash \o Collections \o DotJson THEN JStr(Bahasa)
    ELSE JNull

\* the normalisation without the removal of apostrophes
NormalizeName_KeepsApostrophes(name) ==
    RemoveChar(RemoveChar(RemoveChar(Lower(name), "_"), "-"), " ")

\* line 38: name.lower().replace("_", "").replace("-", "").replace(" ", "").replace("'", "")
NormalizeName(name) ==
    RemoveChar(RemoveChar(RemoveChar(RemoveChar(Lower(name), "_"), "-"), " "), "'")

Bukhari == <<"b", "u", "k", "h", "a", "r", "i">>
Muslim == <<"m", "u", "s", "l", "i", "m">>
AbuDawud == <<"a", "b", "u", "d", "a", "w", "u", "d">>
AbiDaud == <<"a", "b", "i", "d", "a", "u", "d">>
AbiDawood == <<"a", "b", "i", "d", "a", "w", "o", "o", "d">>
Tirmidhi == <<"t", "i", "r", "m", "i", "d", "h", "i">>
Tirmidzi == <<"t", "i", "r", "m", "i", "d", "z", "i">>
Nasai == <<"n", "a", "s", "a", "i">>
AnNasai == <<"a", "n", "n", "a", "s", "a", "i">>
IbnMajah == <<"i", "b", "n", "m", "a", "j", "a", "h">>
IbnuMajah == <<"i", "b", "n", "u", "m", "a", "j", "a", "h">>
IbnMajh == <<"i", "b", "n", "m", "a", "j", "h">>
Riyad == <<"r", "i", "y", "a", "d">>
Riyadus == <<"r", "i", "y", "a", "d", "u", "s">>
Riyadh == <<"r", "i", "y", "a", "d", "h">>
RiyadusSalihin == <<"r", "i", "y", "a", "d", "u", "s", "s", "a", "l", "i", "h", "i", "n">>
Nawawi == <<"n", "a", "w", "a", "w", "i">>
Nawawi40 == <<"n", "a", "w", "a", "w", "i", "4", "0">>
Arbain == <<"a", "r", "b", "a", "i", "n">>
ArbainAnNawawi == <<"a", "r", "b", "a", "i", "n", "a", "n", "n", "a", "w", "a", "w", "i">>

get_collection_id(name) ==
    LET n == NormalizeName(name)
    IN  IF Contains(n, Bukhari) THEN JInt(1)
        ELSE IF Contains(n, Muslim) THEN JInt(2)
        ELSE IF Contains(n, AbuDawud) \/ Contains(n, AbiDaud) \/ Contains(n, AbiDawood) THEN JInt(3)
        ELSE IF Contains(n, Tirmidhi) \/ Contains(n, Tirmidzi) THEN JInt(4)
        ELSE IF Contains(n, Nasai) \/ Contains(n, AnNasai) THEN JInt(5)
        ELSE IF Contains(n, IbnMajah) \/ Contains(n, IbnuMajah) \/ Contains(n, IbnMajh) THEN JInt(6)
        ELSE IF Contains(n, Riyad) \/ Contains(n, Riyadus) \/ Contains(n, Riyadh)
                \/ Contains(n, RiyadusSalihin) THEN JInt(10)
        ELSE IF Contains(n, Nawawi40) \/ Contains(n, Arbain) \/ Contains(n, Nawawi)
                \/ Contains(n, ArbainAnNawawi) THEN JInt(11)
        ELSE JNull

(***************************************************************************)
(* json.dumps of the values a side-field can hold                          *)
(***************************************************************************)
JList(items) == [t |-> "list", items |-> items]
JObj(pairs) == [t |-> "obj", pairs |-> pairs]      \* pairs: sequence of <<key, value>>
Quote == <<"\"">>

RECURSIVE JsonDumpsChars(_)
RECURSIVE JoinItems(_, _)
RECURSIVE JoinPairs(_, _)
JoinItems(items, i) ==
    IF i > Len(items) THEN <<>>
    ELSE (IF i > 1 THEN <<",", " ">> ELSE <<>>) \o JsonDumpsChars(items[i]) \o JoinItems(items, i + 1)
JoinPairs(pairs, i) ==
    IF i > Len(pairs) THEN <<>>
    ELSE (IF i > 1 THEN <<",", " ">> ELSE <<>>)
         \o Quote \o pairs[i][1] \o Quote \o <<":", " ">> \o JsonDumpsChars(pairs[i][2])
         \o JoinPairs(pairs, i + 1)
JsonDumpsChars(x) ==
    CASE x.t = "null" -> <<"n", "u", "l", "l">>
      [] x.t = "int" -> PyStr(x)
      [] x.t = "str" -> Quote \o x.v \o Quote
      [] x.t = "list" -> <<"[">> \o JoinItems(x.items, 1) \o <<"]">>
      [] x.t = "obj" -> <<"{">> \o JoinPairs(x.pairs, 1) \o <<"}">>

\* json.dumps(x): always a str, "null" for None
JsonDumps(x) == JStr(JsonDumpsChars(x))

(***************************************************************************)
(* converter.py: load_summaries                                            *)
(***************************************************************************)
book_names ==
    (1 :> Bukhari) @@ (2 :> Muslim) @@ (3 :> AbuDawud) @@ (4 :> Tirmidhi) @@ (5 :> Nasai)
    @@ (6 :> IbnMajah) @@ (10 :> RiyadusSalihin) @@ (11 :> Nawawi40)

lang_prefixes == (English :> Eng) @@ (Bahasa :> Ind) @@ (Arabic :> Ara)

SummarizedSlash == <<"s", "u", "m", "m", "a", "r", "i", "z", "e", "d", "/">>

possible_paths(lang_prefix, book_name) ==
    << SummarizedSlash \o lang_prefix \o Dash \o book_name \o SummarizedSuffix \o DotJson,
       SummarizedSlash \o lang_prefix \o Dash \o book_name \o DotJson,
       lang_prefix \o Dash \o book_name \o SummarizedSuffix \o DotJson >>

\* a or b
PyOr(a, b) == IF Truthy(a) THEN a ELSE b

\* lines 102-107: the mapping built from the items of one summary file
RECURSIVE SummaryMap(_, _)
SummaryMap(items, n) ==
    IF n = 0 THEN <<>>
    ELSE LET item == items[n]
             hadith_num == PyOr(Get(item, "hadithnumber", JNull), Get(item, "id", JNull))
             summary == Get(item, "summary", JStr(<<>>))
             before == SummaryMap(items, n - 1)
         IN  IF Truthy(hadith_num) /\ Truthy(summary)
             THEN (PyStr(hadith_num) :> summary) @@ before
             ELSE before

\* fs: path -> content of the files that exist; a content is
\* [kind |-> "list", items |-> ...] or [kind |-> "corrupt"] (loading raises, line 111)
RECURSIVE LoadFirst(_, _, _)
LoadFirst(paths, i, fs) ==
    IF i > Len(paths) THEN <<>>
    ELSE IF paths[i] \in DOMAIN fs /\ fs[paths[i]].kind = "list"
         THEN SummaryMap(fs[paths[i]].items, Len(fs[paths[i]].items))
         ELSE LoadFirst(paths, i + 1, fs)

load_summaries(cid, lang, fs) ==
    IF \/ cid.t # "int" \/ cid.n \notin DOMAIN book_names
       \/ lang.t # "str" \/ lang.v \notin DOMAIN lang_prefixes
    THEN <<>>
    ELSE LoadFirst(possible_paths(lang_prefixes[lang.v], book_names[cid.n]), 1, fs)

(***************************************************************************)
(* converter.py: process_collection_info                                   *)
(***************************************************************************)
\* a plain INSERT, as into a table without the primary key (id, language)
InsertOrReplace_PlainInsert(table, row) == Append(table, row)

\* INSERT OR REPLACE under PRIMARY KEY (id, language): the conflicting row is
\* deleted and the new row is appended
InsertOrReplace(table, row) ==
    SelectSeq(table, LAMBDA r : ~(r.id = row.id /\ r.language = row.language)) \o <<row>>

CollectionRow(cid, lang, collection) ==
    [id |-> cid, language |-> lang,
     title |-> Get(collection, "book_name", JNull),
     author |-> Get(collection, "author", JNull),
     realName |-> Get(collection, "real_name", JNull),
     description |-> Get(collection, "description", JNull),
     hadithCount |-> Get(collection, "hadith_count", JNull)]

\* lines 174-189: the loop over the first n entries
RECURSIVE CollectionLoop(_, _, _, _)
CollectionLoop(table, lang, collections, n) ==
    IF n = 0 THEN table
    ELSE LET before == CollectionLoop(table, lang, collections, n - 1)
             collection == collections[n]
             cid == get_collection_id(Get(collection, "book_name", JStr(<<>>)).v)
         IN  IF ~Truthy(cid) THEN before
             ELSE InsertOrReplace(before, CollectionRow(cid, lang, collection))

\* data: the parsed file, an object that may hold "kutub_al_sittah"
process_collection_info(table, lang, data) ==
    LET collections == Get(data, "kutub_al_sittah", <<>>)
    IN  CollectionLoop(table, lang, collections, Len(collections))

(***************************************************************************)
(* converter.py: process_hadith_data                                       *)
(* A document is [root |-> "list", items |-> <<h, ...>>],                  *)
(* [root |-> "dict", obj |-> an object that may hold "hadiths" and         *)
(* "metadata"] or [root |-> "other"].  The "sections" object is the        *)
(* sequence of its <<id, title>> pairs in document order.                  *)
(***************************************************************************)
EmptyDict == <<>>

\* lines 224-243: the hadithData row of one record h
HadithRow(cid, lang, h, summary_map) ==
    LET hadith_num == PyStr(Get(h, "hadithnumber", JStr(<<>>)))
    IN  [collectionId |-> cid,
         id |-> Get(h, "hadithnumber", JNull),
         arabicNumber |-> Get(h, "arabicnumber", JNull),
         text |-> Get(h, "text", JStr(<<>>)),
         language |-> lang,
         grades |-> JsonDumps(Get(h, "grades", JNull)),
         reference |-> JsonDumps(Get(h, "reference", JNull)),
         narration |-> JsonDumps(Get(h, "narration", JNull)),
         tldr |-> Get(h, "tldr", JNull),
         narrator |-> Get(h, "narrator", JNull),
         summary |-> Get(summary_map, hadith_num, JStr(<<>>))]

\* lines 249-262: the hadithSection row of one entry of metadata.sections
TopSectionRow(cid, lang, sid, title, section_details) ==
    LET d == IF section_details # EmptyDict THEN Get(section_details, sid, EmptyDict) ELSE EmptyDict
    IN  [collectionId |-> cid, sectionId |-> JStr(sid), language |-> lang,
         sectionTitle |-> title,
         hadithNumberFirst |-> Get(d, "hadithnumber_first", JNull),
         hadithNumberLast |-> Get(d, "hadithnumber_last", JNull),
         arabicNumberFirst |-> Get(d, "arabicnumber_first", JNull),
         arabicNumberLast |-> Get(d, "arabicnumber_last", JNull),
         parentSectionId |-> JNull, subsectionCount |-> JNull]

\* the test of the shape without its first branch: only an object is a document
DocShape_DictOnly(doc) ==
    IF doc.root = "dict"
    THEN [ok |-> TRUE, hadiths |-> Get(doc.obj, "hadiths", <<>>),
          metadata |-> Get(doc.obj, "metadata", EmptyDict)]
    ELSE [ok |-> FALSE, hadiths |-> <<>>, metadata |-> EmptyDict]

\* lines 212-220: the records and the metadata of a document, by the shape of its root
DocShape(doc) ==
    IF doc.root = "list" THEN [ok |-> TRUE, hadiths |-> doc.items, metadata |-> EmptyDict]
    ELSE IF doc.root = "dict"
    THEN [ok |-> TRUE, hadiths |-> Get(doc.obj, "hadiths", <<>>),
          metadata |-> Get(doc.obj, "metadata", EmptyDict)]
    ELSE [ok |-> FALSE, hadiths |-> <<>>, metadata |-> EmptyDict]

\* an insert that leaves out the rows the table already holds
InsertRows_Distinct(table, rows) ==
    table \o SelectSeq(rows, LAMBDA r : \A i \in DOMAIN table : table[i] # r)

\* lines 227-230 and 250-254: INSERT INTO a table without a key, one row after the other
InsertRows(table, rows) == table \o rows

\* the import without the test of line 203
CidUnresolved_Never(cid) == FALSE

\* line 203: if not cid
CidUnresolved(cid) == ~Truthy(cid)

\* basename: the file's name; fs: the summary files that exist
\* returns the two tables it writes and what it printed
process_hadith_data(data, section, basename, lang, doc, fs) ==
    LET cid == get_collection_id(basename)
        shape == DocShape(doc)
    IN  IF CidUnresolved(cid)
        THEN [hadithData |-> data, hadithSection |-> section, printed |-> "no_collection_id",
              inserted |-> 0, sections |-> 0]
        ELSE IF ~shape.ok
        THEN [hadithData |-> data, hadithSection |-> section, printed |-> "unknown_structure",
              inserted |-> 0, sections |-> 0]
        ELSE LET summary_map == load_summaries(cid, lang, fs)
                 hadiths == shape.hadiths
                 sections == Get(shape.metadata, "sections", <<>>)
                 section_details == Get(shape.metadata, "section_details", EmptyDict)
             IN  [hadithData |-> InsertRows(data, [i \in 1..Len(hadiths) |->
                                            HadithRow(cid, lang, hadiths[i], summary_map)]),
                  hadithSection |-> InsertRows(section, [i \in 1..Len(sections) |->
                                            TopSectionRow(cid, lang, sections[i][1],
                                                          sections[i][2], section_details)]),
                  printed |-> "imported",
                  inserted |-> Len(hadiths), sections |-> Len(sections)]

(***************************************************************************)
(* converter.py: process_subsection_file                                   *)
(***************************************************************************)
\* SQL comparisons are true only of two non-NULL operands
SqlLe(a, b) == a # JNull /\ b # JNull /\ a.n <= b.n
SqlEq(a, b) == a # JNull /\ b # JNull /\ a = b

\* the containment query without the predicate on the language
ContainmentMatch_AnyLanguage(r, cid, lang, h_first) ==
    /\ SqlEq(r.collectionId, cid)
    /\ r.parentSectionId = JNull
    /\ r.hadithNumberFirst # JNull
    /\ r.hadithNumberLast # JNull
    /\ SqlLe(r.hadithNumberFirst, h_first) /\ SqlLe(h_first, r.hadithNumberLast)

\* lines 299-309: the WHERE clause of the containment query
ContainmentMatch(r, cid, lang, h_first) ==
    /\ SqlEq(r.collectionId, cid)
    /\ SqlEq(r.language, lang)
    /\ r.parentSectionId = JNull
    /\ r.hadithNumberFirst # JNull
    /\ r.hadithNumberLast # JNull
    /\ SqlLe(r.hadithNumberFirst, h_first) /\ SqlLe(h_first, r.hadithNumberLast)

\* lines 316-324: the WHERE clause of the fallback query, bound to (cid, lang, h_last, h_first)
FallbackMatch(r, cid, lang, h_first, h_last) ==
    /\ SqlEq(r.collectionId, cid)
    /\ SqlEq(r.language, lang)
    /\ r.parentSectionId = JNull
    /\ SqlLe(h_last, r.hadithNumberLast) /\ SqlLe(r.hadithNumberFirst, h_first)

\* LIMIT 1 + fetchone(): the first matching row in rowid order, 0 when there is none
FirstMatch(table, Match(_)) ==
    LET hits == {i \in DOMAIN table : Match(table[i])}
    IN  IF hits = {} THEN 0 ELSE CHOOSE i \in hits : \A j \in hits : i <= j

\* the loop without the test of line 294
MissingFirst_Never(h_first) == FALSE

\* line 294: if h_first is None
MissingFirst(h_first) == h_first = JNull

\* line 329: if not parent_section_id
NoParent(parent_section_id) == ~Truthy(parent_section_id)

\* line 334: f"{parent_section_id}-{file_index}"
SubsectionId(parent_section_id, file_index) ==
    JStr(PyStr(parent_section_id) \o Dash \o PyStr(file_index))

\* lines 288-351: one iteration of the loop, on the state st of the call
\* (the table, the counters and what was done with each descriptor)
SubsectionStep(st, cid, lang, sub) ==
    LET file_index == Get(sub, "fileIndex", JNull)
        section_title == Get(sub, "sectionTitle", JNull)
        h_first == Get(sub, "hadithNumberFirst", JNull)
        h_last == Get(sub, "hadithNumberLast", JNull)
        c == FirstMatch(st.hadithSection, LAMBDA r : ContainmentMatch(r, cid, lang, h_first))
        f == FirstMatch(st.hadithSection, LAMBDA r : FallbackMatch(r, cid, lang, h_first, h_last))
        parent_section_id ==
            IF c # 0 THEN st.hadithSection[c].sectionId
            ELSE IF f # 0 THEN st.hadithSection[f].sectionId
            ELSE JNull
        via == IF c # 0 THEN "containment" ELSE IF f # 0 THEN "fallback" ELSE "none"
    IN  IF MissingFirst(h_first)
        THEN [st EXCEPT !.skipped = @ + 1,
                        !.log = Append(@, [sub |-> sub, done |-> "skipped_missing_first",
                                           queries |-> 0, via |-> "none", row |-> 0])]
        ELSE IF NoParent(parent_section_id)
        THEN [st EXCEPT !.skipped = @ + 1,
                        !.log = Append(@, [sub |-> sub, done |-> "skipped_no_parent",
                                           queries |-> IF c # 0 THEN 1 ELSE 2,
                                           via |-> via, row |-> 0])]
        ELSE [st EXCEPT !.inserted = @ + 1,
                        !.hadithSection = Append(@,
                            [collectionId |-> cid,
                             sectionId |-> SubsectionId(parent_section_id, file_index),
                             language |-> lang,
                             sectionTitle |-> section_title,
                             hadithNumberFirst |-> h_first,
                             hadithNumberLast |-> h_last,
                             arabicNumberFirst |-> JNull,
                             arabicNumberLast |-> JNull,
                             parentSectionId |-> parent_section_id,
                             subsectionCount |-> JNull]),
                        !.log = Append(@, [sub |-> sub, done |-> "inserted",
                                           queries |-> IF c # 0 THEN 1 ELSE 2,
                                           via |-> via, row |-> Len(st.hadithSection) + 1])]

RECURSIVE SubsectionLoop(_, _, _, _, _)
SubsectionLoop(st, cid, lang, subsections_list, n) ==
    IF n = 0 THEN st
    ELSE SubsectionStep(SubsectionLoop(st, cid, lang, subsections_list, n - 1),
                        cid, lang, subsections_list[n])

\* lines 273-275
SubsectionFileCid(basename) ==
    LET cid == get_collection_id(basename)
    IN  IF cid = JNull /\ EndsWith(basename, SubsectionJson)
        THEN get_collection_id(Replace(basename, SubsectionJson, DotJson))
        ELSE cid

\* line 280
SubsectionFileLang(basename) ==
    PyOr(PyOr(get_hadith_data_lang(basename),
              get_hadith_data_lang(Replace(basename, SubsectionSuffix, <<>>))),
         JStr(Unknown))

process_subsection_file(section, basename, subsections_list) ==
    LET cid == SubsectionFileCid(basename)
        lang == SubsectionFileLang(basename)
        st0 == [hadithSection |-> section, inserted |-> 0, skipped |-> 0, log |-> <<>>]
    IN  IF cid = JNull
        THEN st0 @@ [printed |-> "no_collection_id", cid |-> cid, lang |-> lang]
        ELSE SubsectionLoop(st0, cid, lang, subsections_list, Len(subsections_list))
             @@ [printed |-> "imported", cid |-> cid, lang |-> lang]

(***************************************************************************)
(* converter.py: update_subsection_counts                                  *)
(***************************************************************************)
\* the count without the predicate on the parent id
ChildCount_AnyParent(table, r) ==
    Cardinality({i \in DOMAIN table :
        /\ table[i].parentSectionId # JNull
        /\ SqlEq(table[i].collectionId, r.collectionId)
        /\ SqlEq(table[i].language, r.language)})

\* lines 367-371: the correlated subquery, COUNT(T2.sectionId)
ChildCount(table, r) ==
    Cardinality({i \in DOMAIN table :
        /\ table[i].sectionId # JNull
        /\ SqlEq(table[i].parentSectionId, r.sectionId)
        /\ SqlEq(table[i].collectionId, r.collectionId)
        /\ SqlEq(table[i].language, r.language)})

\* the UPDATE without its WHERE clause
CountedRow_All(r) == TRUE

\* lines 373-375: the rows the UPDATE changes
CountedRow(r) ==
    r.parentSectionId = JNull /\ r.collectionId # JNull /\ r.language # JNull

\* an update that also deletes the sections it counted no subsection for
update_subsection_counts_Pruning(table) ==
    SelectSeq([i \in DOMAIN table |->
                  IF CountedRow(table[i])
                  THEN [table[i] EXCEPT !.subsectionCount = JInt(ChildCount(table, table[i]))]
                  ELSE table[i]],
              LAMBDA r : r.subsectionCount # JInt(0))

\* a run that ends without the UPDATE
update_subsection_counts_Skipped(table) == table

update_subsection_counts(table) ==
    [i \in DOMAIN table |->
        IF CountedRow(table[i])
        THEN [table[i] EXCEPT !.subsectionCount = JInt(ChildCount(table, table[i]))]
        ELSE table[i]]

(***************************************************************************)
(* json.loads of a text json.dumps wrote                                   *)
(***************************************************************************)
IsDigit(c) == \E i \in DOMAIN Digits : Digits[i] = c
DigitValue(c) == (CHOOSE i \in DOMAIN Digits : Digits[i] = c) - 1

RECURSIVE StrToNat(_)
StrToNat(s) ==
    IF s = <<>> THEN 0 ELSE 10 * StrToNat(SubSeq(s, 1, Len(s) - 1)) + DigitValue(s[Len(s)])

\* the first position from i on that holds no digit
RECURSIVE DigitsEnd(_, _)
DigitsEnd(s, i) == IF i <= Len(s) /\ IsDigit(s[i]) THEN DigitsEnd(s, i + 1) ELSE i

ParseFail == [ok |-> FALSE, val |-> JNull, next |-> 0]
At(s, i, lit) == i + Len(lit) - 1 <= Len(s) /\ SubSeq(s, i, i + Len(lit) - 1) = lit

RECURSIVE ParseValue(_, _)
RECURSIVE ParseItems(_, _, _)
RECURSIVE ParsePairs(_, _, _)
ParseString(s, i) ==
    LET ends == {j \in (i + 1)..Len(s) : s[j] = "\""}
    IN  IF i > Len(s) \/ s[i] # "\"" \/ ends = {} THEN ParseFail
        ELSE LET j == CHOOSE k \in ends : \A m \in ends : k <= m
             IN  [ok |-> TRUE, val |-> JStr(SubSeq(s, i + 1, j - 1)), next |-> j + 1]
ParseItems(s, i, acc) ==
    LET r == ParseValue(s, i)
    IN  IF ~r.ok THEN ParseFail
        ELSE IF At(s, r.next, <<"]">>)
        THEN [ok |-> TRUE, val |-> JList(Append(acc, r.val)), next |-> r.next + 1]
        ELSE IF At(s, r.next, <<",", " ">>) THEN ParseItems(s, r.next + 2, Append(acc, r.val))
        ELSE ParseFail
ParsePairs(s, i, acc) ==
    LET k == ParseString(s, i)
    IN  IF ~k.ok \/ ~At(s, k.next, <<":", " ">>) THEN ParseFail
        ELSE LET r == ParseValue(s, k.next + 2)
             IN  IF ~r.ok THEN ParseFail
                 ELSE IF At(s, r.next, <<"}">>)
                 THEN [ok |-> TRUE, val |-> JObj(Append(acc, <<k.val.v, r.val>>)), next |-> r.next + 1]
                 ELSE IF At(s, r.next, <<",", " ">>)
                 THEN ParsePairs(s, r.next + 2, Append(acc, <<k.val.v, r.val>>))
                 ELSE ParseFail
ParseValue(s, i) ==
    IF i > Len(s) THEN ParseFail
    ELSE IF At(s, i, <<"n", "u", "l", "l">>) THEN [ok |-> TRUE, val |-> JNull, next |-> i + 4]
    ELSE IF IsDigit(s[i])
    THEN LET e == DigitsEnd(s, i)
         IN  [ok |-> TRUE, val |-> JInt(StrToNat(SubSeq(s, i, e - 1))), next |-> e]
    ELSE IF s[i] = "-" /\ i < Len(s) /\ IsDigit(s[i + 1])
    THEN LET e == DigitsEnd(s, i + 1)
         IN  [ok |-> TRUE, val |-> JInt(-StrToNat(SubSeq(s, i + 1, e - 1))), next |-> e]
    ELSE IF s[i] = "\"" THEN ParseString(s, i)
    ELSE IF At(s, i, <<"[", "]">>) THEN [ok |-> TRUE, val |-> JList(<<>>), next |-> i + 2]
    ELSE IF s[i] = "[" THEN ParseItems(s, i + 1, <<>>)
    ELSE IF At(s, i, <<"{", "}">>) THEN [ok |-> TRUE, val |-> JObj(<<>>), next |-> i + 2]
    ELSE IF s[i] = "{" THEN ParsePairs(s, i + 1, <<>>)
    ELSE ParseFail

\* the export without json.loads: the stored text as it is
LoadsOrRaw_Raw(text) == text

\* reverseconverter.py lines 116-119: try json.loads(text), except: the text itself
LoadsOrRaw(text) ==
    LET r == IF text.t = "str" THEN ParseValue(text.v, 1) ELSE ParseFail
    IN  IF r.ok /\ r.next = Len(text.v) + 1 THEN r.val ELSE text

(***************************************************************************)
(* SQL ORDER BY                                                            *)
(***************************************************************************)
\* the characters of the model in code-point order
Ascii == <<" ", "\"", "'", ",", "-", ".", "/",
           "0", "1", "2", "3", "4", "5", "6", "7", "8", "9", ":",
           "A", "B", "C", "D", "E", "F", "G", "H", "I", "J", "K", "L", "M",
           "N", "O", "P", "Q", "R", "S", "T", "U", "V", "W", "X", "Y", "Z",
           "[", "]", "_",
           "a", "b", "c", "d", "e", "f", "g", "h", "i", "j", "k", "l", "m",
           "n", "o", "p", "q", "r", "s", "t", "u", "v", "w", "x", "y", "z", "{", "}">>
Ord(c) == CHOOSE i \in DOMAIN Ascii : Ascii[i] = c

\* a < b, byte by byte (the BINARY collation, and Python's str order)
RECURSIVE StrLess(_, _)
StrLess(a, b) ==
    IF b = <<>> THEN FALSE
    ELSE IF a = <<>> THEN TRUE
    ELSE IF a[1] # b[1] THEN Ord(a[1]) < Ord(b[1])
    ELSE StrLess(Tail(a), Tail(b))

\* a sorts before b: NULL first, then numbers, then text
SqlLess(a, b) ==
    CASE a.t = "null" -> b.t # "null"
      [] a.t = "int" -> (b.t = "int" /\ a.n < b.n) \/ b.t = "str"
      [] a.t = "str" -> b.t = "str" /\ StrLess(a.v, b.v)

\* rows sorted by Key, rows of equal key in rowid order
OrderBy(rows, Key(_)) ==
    LET rank(i) == Cardinality({j \in DOMAIN rows :
                        \/ SqlLess(Key(rows[j]), Key(rows[i]))
                        \/ (Key(rows[j]) = Key(rows[i]) /\ j < i)}) + 1
    IN  [k \in DOMAIN rows |-> rows[CHOOSE i \in DOMAIN rows : rank(i) = k]]

\* SELECT DISTINCT collectionId, language ... ORDER BY collectionId, language
ScopeLess(a, b) ==
    SqlLess(a[1], b[1]) \/ (a[1] = b[1] /\ SqlLess(a[2], b[2]))

RECURSIVE SortScopes(_)
SortScopes(S) ==
    IF S = {} THEN <<>>
    ELSE LET m == CHOOSE x \in S : \A y \in S \ {x} : ScopeLess(x, y)
         IN  <<m>> \o SortScopes(S \ {m})

Scopes(rows) == SortScopes({<<rows[i].collectionId, rows[i].language>> : i \in DOMAIN rows})

(***************************************************************************)
(* reverseconverter.py                                                     *)
(***************************************************************************)
COLLECTION_NAMES ==
    (1 :> Bukhari) @@ (2 :> Muslim) @@ (3 :> AbuDawud) @@ (4 :> Tirmidhi) @@ (5 :> Nasai)
    @@ (6 :> IbnMajah) @@ (10 :> RiyadusSalihin) @@ (11 :> Nawawi40)

LANG_PREFIXES == (English :> Eng) @@ (Bahasa :> Ind) @@ (Arabic :> Ara)

\* COLLECTION_NAMES.get(cid), None as <<>>
BookNameOf(cid) ==
    IF cid.t = "int" /\ cid.n \in DOMAIN COLLECTION_NAMES THEN COLLECTION_NAMES[cid.n] ELSE <<>>

\* the prefix without the table: the first three letters of the language
PrefixOf_FirstThree(lang) == SubSeq(lang.v, 1, IF Len(lang.v) < 3 THEN Len(lang.v) ELSE 3)

\* LANG_PREFIXES.get(lang, lang[:3])
PrefixOf(lang) ==
    IF lang.v \in DOMAIN LANG_PREFIXES THEN LANG_PREFIXES[lang.v]
    ELSE SubSeq(lang.v, 1, IF Len(lang.v) < 3 THEN Len(lang.v) ELSE 3)

\* line 96: f"{prefix}-{book_name}.json"
DocumentFileName(scope) == PrefixOf(scope[2]) \o Dash \o BookNameOf(scope[1]) \o DotJson

\* line 203: f"subsection/{prefix}-{book_name}-subsection.json"
SubsectionFileName(scope) ==
    <<"s", "u", "b", "s", "e", "c", "t", "i", "o", "n", "/">>
    \o PrefixOf(scope[2]) \o Dash \o BookNameOf(scope[1]) \o SubsectionJson

\* open(filename, "w") + json.dump
WriteFile(files, filename, content) == (filename :> content) @@ files

InScope(r, scope) == SqlEq(r.collectionId, scope[1]) /\ SqlEq(r.language, scope[2])

\* a key of the exported record that is written only for a truthy column
Optional(key, column, value) == IF Truthy(column) THEN (key :> value) ELSE <<>>

\* lines 108-139: the exported record of one hadithData row
ExportedHadith(row) ==
    [hadithnumber |-> row.id, arabicnumber |-> row.arabicNumber, text |-> row.text]
    @@ Optional("grades", row.grades, LoadsOrRaw(row.grades))
    @@ Optional("reference", row.reference, LoadsOrRaw(row.reference))
    @@ Optional("narration", row.narration, LoadsOrRaw(row.narration))
    @@ Optional("tldr", row.tldr, row.tldr)
    @@ Optional("narrator", row.narrator, row.narrator)

\* d[key] = value on a dict kept as the sequence of its <<key, value>> pairs
DictSet(pairs, key, value) ==
    IF \E i \in DOMAIN pairs : pairs[i][1] = key
    THEN [i \in DOMAIN pairs |-> IF pairs[i][1] = key THEN <<key, value>> ELSE pairs[i]]
    ELSE Append(pairs, <<key, value>>)

\* lines 150-155: sections[sid] = title over the first n fetched rows
RECURSIVE ExportedSections(_, _)
ExportedSections(rows, n) ==
    IF n = 0 THEN <<>>
    ELSE DictSet(ExportedSections(rows, n - 1), rows[n].sectionId.v, rows[n].sectionTitle)

\* lines 156-161: section_details[sid] = {...} over the first n fetched rows
RECURSIVE ExportedDetails(_, _)
ExportedDetails(rows, n) ==
    IF n = 0 THEN EmptyDict
    ELSE (rows[n].sectionId.v :>
            [hadithnumber_first |-> rows[n].hadithNumberFirst,
             hadithnumber_last |-> rows[n].hadithNumberLast,
             arabicnumber_first |-> rows[n].arabicNumberFirst,
             arabicnumber_last |-> rows[n].arabicNumberLast])
         @@ ExportedDetails(rows, n - 1)

\* the metadata query without the test on parentSectionId
TopLevelInScope_AnyRow(r, scope) == InScope(r, scope)

\* lines 142-148: WHERE collectionId = ? AND language = ? AND parentSectionId IS NULL
TopLevelInScope(r, scope) == InScope(r, scope) /\ r.parentSectionId = JNull

\* lines 98-170: the combined document of one (collection, language)
ExportedDocument(data, section, scope) ==
    LET hrows == OrderBy(SelectSeq(data, LAMBDA r : InScope(r, scope)), LAMBDA r : r.id)
        srows == OrderBy(SelectSeq(section, LAMBDA r : TopLevelInScope(r, scope)),
                         LAMBDA r : r.sectionId)
    IN  [root |-> "dict",
         obj |-> [hadiths |-> [i \in DOMAIN hrows |-> ExportedHadith(hrows[i])],
                  metadata |-> [sections |-> ExportedSections(srows, Len(srows)),
                                section_details |-> ExportedDetails(srows, Len(srows))]]]

\* lines 81-87: the (collection, language) pairs export_hadith_data iterates over
HadithDataScopes(data, section) == Scopes(data)

\* lines 89-175: the loop over the first n pairs
RECURSIVE ExportHadithLoop(_, _, _, _, _)
ExportHadithLoop(files, data, section, combinations, n) ==
    IF n = 0 THEN files
    ELSE LET before == ExportHadithLoop(files, data, section, combinations, n - 1)
             scope == combinations[n]
             book_name == BookNameOf(scope[1])
         IN  IF book_name = <<>> THEN before
             ELSE WriteFile(before, DocumentFileName(scope),
                            ExportedDocument(data, section, scope))

export_hadith_data(files, data, section) ==
    LET combinations == HadithDataScopes(data, section)
    IN  ExportHadithLoop(files, data, section, combinations, Len(combinations))

\* line 217: section_id.split("-")[-1] if "-" in section_id else "0"
FileIndexOf(section_id) ==
    IF \E i \in DOMAIN section_id : section_id[i] = "-"
    THEN JStr(AfterLastDash(section_id)) ELSE JStr(<<"0">>)

\* lines 214-224: the exported descriptor of one subsection row
ExportedSubsection(row) ==
    [fileIndex |-> FileIndexOf(row.sectionId.v),
     sectionTitle |-> row.sectionTitle,
     hadithNumberFirst |-> row.hadithNumberFirst,
     hadithNumberLast |-> row.hadithNumberLast]

SubsectionSlash == <<"s", "u", "b", "s", "e", "c", "t", "i", "o", "n", "/">>

\* lines 197-230: the loop over the first n pairs
RECURSIVE ExportSubsectionLoop(_, _, _, _)
ExportSubsectionLoop(files, section, combinations, n) ==
    IF n = 0 THEN files
    ELSE LET before == ExportSubsectionLoop(files, section, combinations, n - 1)
             scope == combinations[n]
             book_name == BookNameOf(scope[1])
             rows == OrderBy(SelectSeq(section, LAMBDA r : InScope(r, scope) /\ r.parentSectionId # JNull),
                             LAMBDA r : r.sectionId)
         IN  IF book_name = <<>> \/ rows = <<>> THEN before
             ELSE WriteFile(before, SubsectionFileName(scope),
                            [root |-> "list",
                             items |-> [i \in DOMAIN rows |-> ExportedSubsection(rows[i])]])

export_subsections(files, section) ==
    LET combinations == Scopes(SelectSeq(section, LAMBDA r : r.parentSectionId # JNull))
    IN  ExportSubsectionLoop(files, section, combinations, Len(combinations))

(***************************************************************************)
(* State after construction: an empty store, nothing exported, main()      *)
(* not running                                                             *)
(***************************************************************************)
NoCall == [op |-> "none"]

InitStore ==
    /\ hadithCollection = <<>>
    /\ hadithData = <<>>
    /\ hadithSection = <<>>
    /\ out = <<>>

InitIdle ==
    /\ call = NoCall
    /\ pc = "idle"
    /\ json_files = <<>>
    /\ subsection_files = <<>>
    /\ summarized_dir = <<>>
    /\ idx = 0

(***************************************************************************)
(* SpecIdentity: get_collection_id applied to names                        *)
(***************************************************************************)
MaxNameTokens == 3

\* the fragments names are made of: spellings with capitals, the separators
\* the normalisation removes, and fragments of no collection
NameTokens ==
    { <<"B", "u", "k", "h", "a", "r", "i">>, <<"M", "U", "S", "L", "I", "M">>,
      <<"a", "b", "u">>, <<"D", "a", "w", "u", "d">>, <<"t", "i", "r", "m", "i", "d", "z", "i">>,
      <<"a", "n">>, <<"n", "a", "s", "a">>, <<"i">>, <<"i", "b", "n">>, <<"m", "a", "j", "a", "h">>,
      <<"R", "i", "y", "a", "d">>, <<"n", "a", "w", "a", "w", "i">>,
      <<"'">>, <<"-">>, <<"_">>, <<" ">> }

RECURSIVE Names(_)
Names(n) ==
    IF n = 0 THEN {<<>>}
    ELSE LET shorter == Names(n - 1)
         IN  shorter \cup {s \o tok : s \in shorter, tok \in NameTokens}

CallGetCollectionId ==
    /\ call = NoCall
    /\ \E name \in Names(MaxNameTokens) :
          call' = [op |-> "get_collection_id", name |-> name, ret |-> get_collection_id(name)]
    /\ UNCHANGED <<store, out, mainVars>>

InitIdentity == InitStore /\ InitIdle
NextIdentity == CallGetCollectionId
SpecIdentity == InitIdentity /\ [][NextIdentity]_vars

\* C9: get_collection_id lower-cases the name, removes "_", "-", " " and "'", and
\* returns the id of the first rule, in the order bukhari(1), muslim(2), abu dawud(3),
\* tirmidhi(4), nasai(5), ibn majah(6), riyad(10), nawawi(11), one of whose substrings
\* occurs in the normalized name; None when no rule matches.
C9_RuleIds == <<1, 2, 3, 4, 5, 6, 10, 11>>
C9_RuleSubstrings ==
    << {Bukhari}, {Muslim}, {AbuDawud, AbiDaud, AbiDawood}, {Tirmidhi, Tirmidzi},
       {Nasai, AnNasai}, {IbnMajah, IbnuMajah, IbnMajh},
       {Riyad, Riyadus, Riyadh, RiyadusSalihin},
       {Nawawi40, Arbain, Nawawi, ArbainAnNawawi} >>
C9_Normalized(name) ==
    SelectSeq([i \in DOMAIN name |-> LowerChar(name[i])],
              LAMBDA c : c \notin {"_", "-", " ", "'"})
C9_Matching(name) ==
    {i \in DOMAIN C9_RuleIds : \E sub \in C9_RuleSubstrings[i] : Contains(C9_Normalized(name), sub)}
C9_FirstRuleWins ==
    call.op = "get_collection_id" =>
        LET m == C9_Matching(call.name)
        IN  IF m = {} THEN call.ret = JNull
            ELSE call.ret = JInt(C9_RuleIds[CHOOSE i \in m : \A j \in m : i <= j])

\* C9 witness: a name that holds substrings of two rules, the later rule's first,
\* with separators and capitals, resolved to the earlier rule
C9_Witness ==
    /\ call.op = "get_collection_id"
    /\ Cardinality(C9_Matching(call.name)) >= 2
    /\ call.name # Lower(call.name)
    /\ \E i \in DOMAIN call.name : call.name[i] \in {"_", "-", " ", "'"}
    /\ call.ret = JInt(1)
    /\ FindFirst(NormalizeName(call.name), Muslim) # 0
    /\ FindFirst(NormalizeName(call.name), Muslim) < FindFirst(NormalizeName(call.name), Bukhari)


(***************************************************************************)
(* Spec: a document import, a subsection pass, aggregate passes and the    *)
(* export of the subsections, on one store                                 *)
(***************************************************************************)
MaxHadithNumber == 2

HadithNumbers == {JInt(n) : n \in 1..MaxHadithNumber}

\* file names
EngBukhari == Eng \o Dash \o Bukhari \o DotJson
EngBukhariSubsection == Eng \o Dash \o Bukhari \o SubsectionJson
IndMuslimSubsection == Ind \o Dash \o Muslim \o SubsectionJson

\* the ids of the sections of a document, in document order
SectionIdLists == { <<>>, << <<"1">> >>, << <<>> >>, << <<"2">>, <<"1">> >> }

TitleOf(sid) == JStr(<<"T">> \o sid)

\* a section either has no section_details entry or one with both record bounds
NoDetails == [absent |-> TRUE]
DetailChoices ==
    {NoDetails} \cup {[hadithnumber_first |-> a, hadithnumber_last |-> b] :
                        a \in HadithNumbers, b \in HadithNumbers}

Range(seq) == {seq[i] : i \in DOMAIN seq}

\* the metadata block of a document with the sections ids, details[sid] for each
MetadataOf(ids, details) ==
    LET with == {sid \in Range(ids) : details[sid] # NoDetails}
    IN  [sections |-> [i \in DOMAIN ids |-> <<ids[i], TitleOf(ids[i])>>],
         section_details |-> [sid \in with |-> details[sid]]]

OneRecord == [hadithnumber |-> JInt(1), text |-> JStr(<<"x">>)]

SectionDocuments ==
    UNION { { [root |-> "dict",
               obj |-> [hadiths |-> <<OneRecord>>, metadata |-> MetadataOf(ids, details)]] :
                details \in [Range(ids) -> DetailChoices] } : ids \in SectionIdLists }

\* the fileIndex values of the descriptors of a subsection file, in file order:
\* a number, a string, a string that holds the separator
FileIndexLists ==
    { <<JInt(1)>>, <<JStr(<<"2">>)>>, <<JStr(<<"3", "-", "a">>)>>, <<JStr(<<"2">>), JInt(1)>> }

\* a descriptor: hadithNumberFirst may be absent, hadithNumberLast may be null
Descriptor(file_index, first, last) ==
    LET base == [fileIndex |-> file_index, sectionTitle |-> JStr(<<"s">> \o PyStr(file_index)),
                 hadithNumberLast |-> last]
    IN  IF first = JNull THEN base ELSE base @@ [hadithNumberFirst |-> first]

SubsectionLists ==
    UNION { { [i \in DOMAIN fis |-> Descriptor(fis[i], firsts[i], lasts[i])] :
                firsts \in [DOMAIN fis -> HadithNumbers \cup {JNull}],
                lasts \in [DOMAIN fis -> HadithNumbers \cup {JNull}] } : fis \in FileIndexLists }

SubsectionFileNames == {EngBukhariSubsection, IndMuslimSubsection}

IsExport(c) == c.op \in {"export_hadith_data", "export_subsections"}

\* the exporter runs after the importer, on the store the importer left
\* the call before an export that was not an export itself
LastImporterCall == IF IsExport(call) THEN call.prev ELSE call

NoSubsections == \A i \in DOMAIN hadithSection : hadithSection[i].parentSectionId = JNull

\* converter.py main(), lines 399 and 407: process_hadith_data(path, lang, conn) with
\* lang = get_hadith_data_lang(name), on a store that holds nothing yet
ImportDocument(basename, doc, fs) ==
    /\ hadithData = <<>> /\ hadithSection = <<>> /\ ~IsExport(call)
    /\ LET r == process_hadith_data(hadithData, hadithSection, basename,
                                    get_hadith_data_lang(basename), doc, fs)
       IN  /\ hadithData' = r.hadithData
           /\ hadithSection' = r.hadithSection
           /\ call' = [op |-> "process_hadith_data", basename |-> basename, doc |-> doc,
                       printed |-> r.printed, inserted |-> r.inserted, sections |-> r.sections]
    /\ UNCHANGED <<hadithCollection, out, mainVars>>

\* process_subsection_file(path, conn) on a store that holds no subsection yet
SubsectionPass(basename, subsections_list) ==
    /\ ~IsExport(call) /\ NoSubsections /\ call.op # "process_subsection_file"
    /\ LET r == process_subsection_file(hadithSection, basename, subsections_list)
       IN  /\ hadithSection' = r.hadithSection
           /\ call' = [op |-> "process_subsection_file", basename |-> basename,
                       before |-> hadithSection,
                       cid |-> r.cid, lang |-> r.lang, printed |-> r.printed,
                       inserted |-> r.inserted, skipped |-> r.skipped, log |-> r.log]
    /\ UNCHANGED <<hadithCollection, hadithData, out, mainVars>>

\* update_subsection_counts(conn)
AggregatePass ==
    /\ ~IsExport(call)
    /\ hadithSection' = update_subsection_counts(hadithSection)
    /\ call' = [op |-> "update_subsection_counts"]
    /\ UNCHANGED <<hadithCollection, hadithData, out, mainVars>>

\* reverseconverter.py: export_subsections(conn), after the importer has finished
ExportSubsections ==
    /\ call.op \in {"process_subsection_file", "update_subsection_counts", "export_hadith_data"}
    /\ out' = export_subsections(out, hadithSection)
    /\ call' = [op |-> "export_subsections", prev |-> LastImporterCall]
    /\ UNCHANGED <<store, mainVars>>

Init == InitStore /\ InitIdle

ImportSections == \E doc \in SectionDocuments : ImportDocument(EngBukhari, doc, <<>>)
ResolveSubsections ==
    \E basename \in SubsectionFileNames, subs \in SubsectionLists : SubsectionPass(basename, subs)

Next ==
    \/ ImportSections
    \/ ResolveSubsections
    \/ AggregatePass
    \/ ExportSubsections

Spec == Init /\ [][Next]_vars


(***************************************************************************)
(* Claims about process_subsection_file, stated on the call record of the  *)
(* last subsection pass: call.before is the table the pass started from,   *)
(* call.log[i] what was done with the i-th descriptor of the file          *)
(***************************************************************************)
IsPass == call.op = "process_subsection_file" /\ call.printed = "imported"

DescFirst(sub) == Get(sub, "hadithNumberFirst", JNull)
DescLast(sub) == Get(sub, "hadithNumberLast", JNull)

\* the top-level sections of the pass's (collection, language), in insertion order
TopLevelOf(c) ==
    SelectSeq(c.before, LAMBDA r : r.collectionId = c.cid /\ r.language = c.lang
                                   /\ r.parentSectionId = JNull)

\* P's range contains the record number x
RangeContains(P, x) ==
    /\ P.hadithNumberFirst # JNull /\ P.hadithNumberLast # JNull /\ x # JNull
    /\ P.hadithNumberFirst.n <= x.n /\ x.n <= P.hadithNumberLast.n

\* P's range intersects the descriptor's: P.last >= d.first and P.first <= d.last
RangeOverlaps(P, sub) ==
    /\ P.hadithNumberFirst # JNull /\ P.hadithNumberLast # JNull
    /\ DescFirst(sub) # JNull /\ DescLast(sub) # JNull
    /\ P.hadithNumberLast.n >= DescFirst(sub).n /\ P.hadithNumberFirst.n <= DescLast(sub).n

FirstOf(seq, Test(_)) ==
    seq[CHOOSE i \in DOMAIN seq : Test(seq[i]) /\ \A j \in 1..(i - 1) : ~Test(seq[j])]

\* the rows the pass inserted for the descriptor sub: its title is its own
RowsFor(sub) ==
    {i \in (Len(call.before) + 1)..Len(hadithSection) :
        hadithSection[i].sectionTitle = sub.sectionTitle}

\* sub was attached to the section P: one new row with the composite id and sub's own fields
AttachedTo(sub, P) ==
    /\ Cardinality(RowsFor(sub)) = 1
    /\ \A i \in RowsFor(sub) :
          /\ hadithSection[i].parentSectionId = P.sectionId
          /\ hadithSection[i].sectionId = JStr(P.sectionId.v \o <<"-">> \o PyStr(sub.fileIndex))
          /\ hadithSection[i].collectionId = call.cid
          /\ hadithSection[i].language = call.lang
          /\ hadithSection[i].hadithNumberFirst = DescFirst(sub)
          /\ hadithSection[i].hadithNumberLast = DescLast(sub)

\* C1: a descriptor with a hadithNumberFirst that no top-level section of its scope
\* contains is attached to the first top-level section whose range intersects its own
\* range, and is skipped only if there is none.
C1_OverlapFallback ==
    IsPass =>
        \A i \in DOMAIN call.log :
            LET sub == call.log[i].sub
                tops == TopLevelOf(call)
            IN  (/\ DescFirst(sub) # JNull
                 /\ \A k \in DOMAIN tops : ~RangeContains(tops[k], DescFirst(sub)))
                => IF \E k \in DOMAIN tops : RangeOverlaps(tops[k], sub)
                   THEN AttachedTo(sub, FirstOf(tops, LAMBDA P : RangeOverlaps(P, sub)))
                   ELSE RowsFor(sub) = {}

\* C2: a descriptor whose hadithNumberFirst is contained in a top-level section of its
\* scope gets exactly one new row, attached to the first such section in insertion
\* order, with the id "<parent id>-<fileIndex>" and its own title and bounds.
C2_ContainmentAttaches ==
    IsPass =>
        \A i \in DOMAIN call.log :
            LET sub == call.log[i].sub
                tops == TopLevelOf(call)
            IN  (\E k \in DOMAIN tops : RangeContains(tops[k], DescFirst(sub)))
                => AttachedTo(sub, FirstOf(tops, LAMBDA P : RangeContains(P, DescFirst(sub))))

\* C3: a descriptor that no top-level section of its scope contains or overlaps gets no
\* row, no placeholder parent is created, and the skipped counter counts it.
C3_NoFalseMatch ==
    IsPass =>
        /\ \A i \in DOMAIN call.log :
            LET sub == call.log[i].sub
                tops == TopLevelOf(call)
            IN  (/\ DescFirst(sub) # JNull
                 /\ \A k \in DOMAIN tops : ~RangeContains(tops[k], DescFirst(sub))
                 /\ \A k \in DOMAIN tops : ~RangeOverlaps(tops[k], sub))
                => RowsFor(sub) = {} /\ call.log[i].done # "inserted"
        /\ call.skipped = Cardinality({i \in DOMAIN call.log : call.log[i].done # "inserted"})
        /\ \A i \in (Len(call.before) + 1)..Len(hadithSection) :
              hadithSection[i].parentSectionId # JNull

\* C4: a descriptor without hadithNumberFirst is always skipped: no query is run for it,
\* no row is inserted for it, and the skipped counter counts it.
C4_MissingFirstSkipped ==
    IsPass =>
        /\ Len(call.log) = call.inserted + call.skipped
        /\ Len(hadithSection) = Len(call.before) + call.inserted
        /\ \A i \in (Len(call.before) + 1)..Len(hadithSection) :
              hadithSection[i].hadithNumberFirst # JNull
        /\ \A i \in DOMAIN call.log :
              DescFirst(call.log[i].sub) = JNull
              => /\ call.log[i].done = "skipped_missing_first"
                 /\ call.log[i].queries = 0
                 /\ RowsFor(call.log[i].sub) = {}
        /\ call.skipped >= Cardinality({i \in DOMAIN call.log : DescFirst(call.log[i].sub) = JNull})

\* C4 witness: a file whose first descriptor lacks hadithNumberFirst but has a
\* hadithNumberLast inside a top-level section, and whose second descriptor is inserted
C4_Witness ==
    /\ IsPass
    /\ Len(call.log) = 2
    /\ DescFirst(call.log[1].sub) = JNull
    /\ \E k \in DOMAIN TopLevelOf(call) : RangeContains(TopLevelOf(call)[k], DescLast(call.log[1].sub))
    /\ call.log[1].done = "skipped_missing_first"
    /\ call.log[2].done = "inserted"
    /\ call.skipped = 1 /\ call.inserted = 1

(***************************************************************************)
(* Claims about update_subsection_counts                                   *)
(***************************************************************************)
\* the number of rows of the table whose parent is the row T, in T's scope
ChildrenOf(table, T) ==
    Cardinality({i \in DOMAIN table :
                    /\ table[i].parentSectionId = T.sectionId
                    /\ table[i].collectionId = T.collectionId
                    /\ table[i].language = T.language})

CountsAreTrue ==
    call.op = "update_subsection_counts" =>
        \A i \in DOMAIN hadithSection :
            hadithSection[i].parentSectionId = JNull
            => hadithSection[i].subsectionCount = JInt(ChildrenOf(hadithSection, hadithSection[i]))

SecondUpdateChangesNothing ==
    (call.op = "update_subsection_counts" /\ call'.op = "update_subsection_counts")
    => hadithSection' = hadithSection

\* C5: right after update_subsection_counts every top-level row's subsectionCount is the
\* number of rows of its collection and language whose parentSectionId is its sectionId,
\* and a second update_subsection_counts with no insertion in between changes no row.
C5_AggregateCorrect == []CountsAreTrue /\ [][SecondUpdateChangesNothing]_vars

\* C5 witness: counts recomputed over two top-level sections, one with a subsection and
\* one without
C5_Witness ==
    /\ call.op = "update_subsection_counts"
    /\ \E i, j \in DOMAIN hadithSection :
          /\ hadithSection[i].parentSectionId = JNull
          /\ hadithSection[j].parentSectionId = JNull
          /\ hadithSection[i].subsectionCount = JInt(1)
          /\ hadithSection[j].subsectionCount = JInt(0)

(***************************************************************************)
(* Claims about export_subsections, stated on an export that directly      *)
(* follows a subsection pass: call.prev is that pass                       *)
(***************************************************************************)
ExportedAfterPass ==
    /\ call.op = "export_subsections"
    /\ call.prev.op = "process_subsection_file"
    /\ call.prev.printed = "imported"

SubsectionFileOf(c) ==
    SubsectionSlash \o PrefixOf(c.lang) \o Dash \o BookNameOf(c.cid) \o SubsectionJson

\* C8: every descriptor the pass attached to a parent is exported once, to the file of
\* its collection and language, with the fileIndex, sectionTitle, hadithNumberFirst and
\* hadithNumberLast it was imported with.
C8_SubsectionRoundTrip ==
    ExportedAfterPass =>
        \A i \in DOMAIN call.prev.log :
            call.prev.log[i].done = "inserted"
            => LET sub == call.prev.log[i].sub
                   f == SubsectionFileOf(call.prev)
               IN  /\ f \in DOMAIN out
                   /\ Cardinality({k \in DOMAIN out[f].items :
                          out[f].items[k] = [fileIndex |-> sub.fileIndex,
                                             sectionTitle |-> sub.sectionTitle,
                                             hadithNumberFirst |-> DescFirst(sub),
                                             hadithNumberLast |-> DescLast(sub)]}) = 1

(***************************************************************************)
(* SpecCollections: process_collection_info run again and again on         *)
(* collection-info files of the two languages                              *)
(***************************************************************************)
MaxEntries == 2

EngCollections == Eng \o Dash \o Collections \o DotJson
IndCollections == Ind \o Dash \o Collections \o DotJson
AlBukhari == <<"A", "l", "-", "B", "u", "k", "h", "a", "r", "i">>
Foo == <<"f", "o", "o">>

\* an entry with every field, the fields told apart by the tag
FullEntry(book_name, tag) ==
    [book_name |-> JStr(book_name), author |-> JStr(<<"a">> \o tag),
     real_name |-> JStr(<<"r">> \o tag), description |-> JStr(<<"d">> \o tag),
     hadith_count |-> JInt(IF tag = <<"1">> THEN 1 ELSE 2)]

\* entries of collection 1 under two names, of collection 2 with only a name,
\* of no known collection, and without a name
CollectionEntries ==
    { FullEntry(Bukhari, <<"1">>), FullEntry(AlBukhari, <<"2">>),
      [book_name |-> JStr(Muslim)], FullEntry(Foo, <<"1">>), [author |-> JStr(<<"a">>)] }

SeqsUpTo(S, n) == UNION { [1..k -> S] : k \in 0..n }

\* the parsed files: with the list of entries, or without the key
CollectionFiles ==
    {EmptyDict} \cup {[kutub_al_sittah |-> entries] : entries \in SeqsUpTo(CollectionEntries, MaxEntries)}

\* the key of the row an entry is stored under, JNull for an entry that is skipped
EntryId(collection) == get_collection_id(Get(collection, "book_name", JStr(<<>>)).v)

\* for each (id, language) the last entry processed for it so far
RECURSIVE LastEntries(_, _, _, _)
LastEntries(last, lang, collections, n) ==
    IF n = 0 THEN last
    ELSE LET before == LastEntries(last, lang, collections, n - 1)
             cid == EntryId(collections[n])
         IN  IF cid = JNull THEN before
             ELSE (<<cid, lang>> :> collections[n]) @@ before

ResolvingEntries(collections) ==
    Cardinality({i \in DOMAIN collections : EntryId(collections[i]) # JNull})

\* converter.py main(), lines 398 and 404-405: process_collection_info(path, info_lang, conn)
ImportCollectionInfo(basename, data) ==
    LET info_lang == get_collection_info_lang(basename)
        collections == Get(data, "kutub_al_sittah", <<>>)
        after == process_collection_info(hadithCollection, info_lang, data)
    IN  /\ Truthy(info_lang)
        /\ hadithCollection' = after
        /\ call' = [op |-> "process_collection_info", lang |-> info_lang,
                    last |-> LastEntries(IF call.op = "process_collection_info"
                                         THEN call.last ELSE <<>>,
                                         info_lang, collections, Len(collections)),
                    replaced |-> Len(hadithCollection) + ResolvingEntries(collections) - Len(after)]
        /\ UNCHANGED <<hadithData, hadithSection, out, mainVars>>

InitCollections == InitStore /\ InitIdle
NextCollections ==
    \E basename \in {EngCollections, IndCollections}, data \in CollectionFiles :
        ImportCollectionInfo(basename, data)
SpecCollections == InitCollections /\ [][NextCollections]_vars

\* C6: after any number of runs of process_collection_info, hadithCollection holds
\* exactly one row for each (id, language) that an entry resolved to, and its title,
\* author, realName, description and hadithCount are those of the last entry processed
\* for that key.
C6_ReplaceSemantics ==
    call.op = "process_collection_info" =>
        /\ \A i, j \in DOMAIN hadithCollection :
              (/\ hadithCollection[i].id = hadithCollection[j].id
               /\ hadithCollection[i].language = hadithCollection[j].language) => i = j
        /\ \A i \in DOMAIN hadithCollection :
              <<hadithCollection[i].id, hadithCollection[i].language>> \in DOMAIN call.last
        /\ \A key \in DOMAIN call.last :
              \E i \in DOMAIN hadithCollection :
                  /\ hadithCollection[i].id = key[1]
                  /\ hadithCollection[i].language = key[2]
                  /\ hadithCollection[i].title = Get(call.last[key], "book_name", JNull)
                  /\ hadithCollection[i].author = Get(call.last[key], "author", JNull)
                  /\ hadithCollection[i].realName = Get(call.last[key], "real_name", JNull)
                  /\ hadithCollection[i].description = Get(call.last[key], "description", JNull)
                  /\ hadithCollection[i].hadithCount = Get(call.last[key], "hadith_count", JNull)

\* C6 witness: a run that replaced a row of collection 1 by an entry under another name,
\* with rows of both languages in the table
C6_Witness ==
    /\ call.op = "process_collection_info"
    /\ call.replaced >= 1
    /\ \E i, j \in DOMAIN hadithCollection :
          /\ hadithCollection[i].id = JInt(1) /\ hadithCollection[i].language = call.lang
          /\ hadithCollection[i].title = JStr(AlBukhari)
          /\ hadithCollection[j].id = JInt(1) /\ hadithCollection[j].language # call.lang
          /\ hadithCollection[j].title = JStr(Bukhari)

(***************************************************************************)
(* SpecDocument: one combined document imported into the empty store and   *)
(* exported again                                                          *)
(***************************************************************************)
MaxRecords == 2

\* records: without any side-field; with a list of grades, an empty object and an empty
\* list; with an arabic number, a narrator and a reference that nests a list in an object
DocumentRecords ==
    { [hadithnumber |-> JInt(1), text |-> JStr(<<"x">>)],
      [hadithnumber |-> JInt(2), text |-> JStr(<<"y">>),
       grades |-> JList(<<JObj(<< <<<<"g">>, JStr(<<"s">>)>> >>)>>),
       reference |-> JObj(<<>>),
       narration |-> JList(<<>>)],
      [hadithnumber |-> JInt(3), text |-> JStr(<<>>), arabicnumber |-> JInt(3),
       narrator |-> JStr(<<"n">>),
       reference |-> JObj(<< <<<<"b">>, JInt(1)>>, <<<<"h">>, JList(<<JInt(1), JNull>>)>> >>)] }

\* metadata-form documents: with the list of records or without the key, and the
\* sections of SectionIdLists
CombinedDocuments ==
    UNION { { [root |-> "dict", obj |-> records @@ [metadata |-> MetadataOf(ids, details)]] :
                details \in [Range(ids) -> DetailChoices],
                records \in {EmptyDict} \cup
                            {[hadiths |-> hs] : hs \in SeqsUpTo(DocumentRecords, MaxRecords)} } :
            ids \in SectionIdLists }

\* reverseconverter.py main(), line 298: export_hadith_data(conn)
ExportHadithData ==
    /\ call.op = "process_hadith_data"
    /\ out' = export_hadith_data(out, hadithData, hadithSection)
    /\ call' = [op |-> "export_hadith_data", prev |-> LastImporterCall]
    /\ UNCHANGED <<store, mainVars>>

ImportCombined == \E doc \in CombinedDocuments : ImportDocument(EngBukhari, doc, <<>>)

InitDocument == InitStore /\ InitIdle
NextDocument == ImportCombined \/ ExportHadithData
SpecDocument == InitDocument /\ [][NextDocument]_vars

ExportedAfterImport ==
    /\ call.op = "export_hadith_data"
    /\ call.prev.op = "process_hadith_data"
    /\ call.prev.printed = "imported"
    /\ call.prev.doc.root = "dict"

BoundKeys == {"hadithnumber_first", "hadithnumber_last", "arabicnumber_first", "arabicnumber_last"}

\* the <<id, text>> pairs of a list of records
RecordBodies(hadiths) ==
    {<<Get(hadiths[i], "hadithnumber", JNull), Get(hadiths[i], "text", JStr(<<>>))>> :
        i \in DOMAIN hadiths}

\* the document d repeats the sections, the bounds and the records of the document src
SameDocument(d, src) ==
    LET src_meta == Get(src, "metadata", EmptyDict)
        src_sections == Get(src_meta, "sections", <<>>)
        src_details == Get(src_meta, "section_details", EmptyDict)
    IN  /\ Range(d.metadata.sections) = Range(src_sections)
        /\ DOMAIN d.metadata.section_details \subseteq {p[1] : p \in Range(src_sections)}
        /\ \A p \in Range(src_sections) :
              /\ p[1] \in DOMAIN d.metadata.section_details
              /\ \A k \in BoundKeys :
                    Get(d.metadata.section_details[p[1]], k, JNull)
                    = Get(Get(src_details, p[1], EmptyDict), k, JNull)
        /\ RecordBodies(d.hadiths) = RecordBodies(Get(src, "hadiths", <<>>))
        /\ Len(d.hadiths) = Len(Get(src, "hadiths", <<>>))

\* C7: a metadata-form document imported into the empty store and exported comes back,
\* in the file of its collection and language, with the same section ids and titles,
\* the same bounds for each id, and the same record ids each with the same text.
C7_DocumentRoundTrip ==
    ExportedAfterImport =>
        /\ call.prev.basename \in DOMAIN out
        /\ SameDocument(out[call.prev.basename].obj, call.prev.doc.obj)

(***************************************************************************)
(* SpecMain: converter.py main() over the files of the working directory   *)
(* and of subsection/; a file's content is read when its turn comes        *)
(***************************************************************************)
EngFoo == Eng \o Dash \o Foo \o DotJson
FooJson == Foo \o DotJson
EngFooSubsection == Eng \o Dash \o Foo \o SubsectionJson
IndMuslim == Ind \o Dash \o Muslim \o DotJson

\* glob("*.json"): documents of two known collections and of an unknown one, a
\* collection-info file, a name with the subsection suffix, a name without language
CwdNames == {EngBukhari, EngCollections, EngFoo, EngBukhariSubsection, FooJson, IndMuslim}

\* glob("subsection/*.json"), by basename
SubsectionDirNames == {EngBukhariSubsection, EngFooSubsection, IndMuslimSubsection}

\* sorted(...)
RECURSIVE SortedNames(_)
SortedNames(S) ==
    IF S = {} THEN <<>>
    ELSE LET m == CHOOSE x \in S : \A y \in S \ {x} : StrLess(x, y)
         IN  <<m>> \o SortedNames(S \ {m})

SectionOneDetails == (<<"1">> :> [hadithnumber_first |-> JInt(1), hadithnumber_last |-> JInt(2)])

MainDocuments ==
    { [root |-> "list", items |-> <<OneRecord>>],
      [root |-> "dict",
       obj |-> [hadiths |-> <<OneRecord>>,
                metadata |-> MetadataOf(<< <<"1">> >>, SectionOneDetails)]],
      [root |-> "other"] }

MainCollectionFiles ==
    { [kutub_al_sittah |-> <<FullEntry(Foo, <<"1">>), FullEntry(Bukhari, <<"1">>)>>],
      [kutub_al_sittah |-> <<[author |-> JStr(<<"a">>)], FullEntry(Foo, <<"2">>)>>] }

MainSubsectionLists ==
    { <<Descriptor(JInt(1), JInt(1), JInt(2))>>, <<Descriptor(JInt(1), JNull, JInt(2))>> }

EngBukhariSummaries ==
    (SummarizedSlash \o Eng \o Dash \o Bukhari \o SummarizedSuffix \o DotJson)
    :> [kind |-> "list", items |-> <<[hadithnumber |-> JInt(1), summary |-> JStr(<<"s">>)]>>]

\* eng-bukhari-summarized.json in the working directory, the third place load_summaries
\* looks at
EngBukhariSummarized == Eng \o Dash \o Bukhari \o SummarizedSuffix \o DotJson

CwdSummaries ==
    EngBukhariSummarized
    :> [kind |-> "list", items |-> <<[hadithnumber |-> JInt(1), summary |-> JStr(<<"s">>)]>>]

SummaryDirs == {<<>>, EngBukhariSummaries, CwdSummaries}

\* the summary files that lie in the working directory itself: glob("*.json") lists them
CwdSummaryNames(fs) == {name \in DOMAIN fs : ~StartsWith(name, SummarizedSlash)}

\* json.load(fh) of the file name: a summary file holds its list, any other file one of
\* the documents
DocumentsOf(name, fs) ==
    IF name \in DOMAIN fs
    THEN {[root |-> "list", items |-> fs[name].items]}
    ELSE MainDocuments

\* the position after the file idx of the first loop, lines 396 and 411
AfterJsonFile ==
    IF idx < Len(json_files) THEN <<"json", idx + 1>>
    ELSE IF subsection_files # <<>> THEN <<"subsection", 1>>
    ELSE <<"update", 0>>

\* a second loop that hands over to the first loop again instead of the update
AfterSubsectionFile_BackToDocuments ==
    IF idx < Len(subsection_files) THEN <<"subsection", idx + 1>> ELSE <<"json", 1>>

\* the position after the file idx of the second loop, lines 411 and 416
AfterSubsectionFile ==
    IF idx < Len(subsection_files) THEN <<"subsection", idx + 1>> ELSE <<"update", 0>>

\* lines 386-394: the two listings, the early return, the connection and the tables
StartMain ==
    /\ pc = "idle" /\ call = NoCall
    /\ IF json_files = <<>>
       THEN pc' = "done" /\ idx' = 0 /\ call' = [op |-> "main", printed |-> "no_json_files"]
       ELSE pc' = "json" /\ idx' = 1 /\ call' = [op |-> "main", printed |-> "started"]
    /\ UNCHANGED <<store, out, json_files, subsection_files, summarized_dir>>

\* lines 396-409: one iteration of the loop over json_files
JsonFileStep ==
    /\ pc = "json"
    /\ LET name == json_files[idx]
           info_lang == get_collection_info_lang(name)
           lang == get_hadith_data_lang(name)
       IN  IF EndsWith(name, SubsectionJson)
           THEN /\ call' = [op |-> "continue", basename |-> name]
                /\ UNCHANGED store
           ELSE IF Truthy(info_lang)
           THEN \E data \in MainCollectionFiles :
                   /\ hadithCollection' = process_collection_info(hadithCollection, info_lang, data)
                   /\ call' = [op |-> "process_collection_info", basename |-> name,
                               lang |-> info_lang, data |-> data]
                   /\ UNCHANGED <<hadithData, hadithSection>>
           ELSE IF Truthy(lang)
           THEN \E doc \in DocumentsOf(name, summarized_dir) :
                   LET r == process_hadith_data(hadithData, hadithSection, name, lang, doc,
                                                summarized_dir)
                   IN  /\ hadithData' = r.hadithData
                       /\ hadithSection' = r.hadithSection
                       /\ call' = [op |-> "process_hadith_data", basename |-> name,
                                   doc |-> doc,
                                   printed |-> r.printed, inserted |-> r.inserted,
                                   sections |-> r.sections]
                       /\ UNCHANGED hadithCollection
           ELSE /\ call' = [op |-> "unrecognized", basename |-> name]
                /\ UNCHANGED store
    /\ pc' = AfterJsonFile[1] /\ idx' = AfterJsonFile[2]
    /\ UNCHANGED <<out, json_files, subsection_files, summarized_dir>>

\* lines 411-413: one iteration of the loop over subsection_files
SubsectionFileStep ==
    /\ pc = "subsection"
    /\ \E subsections_list \in MainSubsectionLists :
          LET name == subsection_files[idx]
              r == process_subsection_file(hadithSection, name, subsections_list)
          IN  /\ hadithSection' = r.hadithSection
              /\ call' = [op |-> "process_subsection_file", basename |-> name,
                          printed |-> r.printed, inserted |-> r.inserted, skipped |-> r.skipped]
    /\ pc' = AfterSubsectionFile[1] /\ idx' = AfterSubsectionFile[2]
    /\ UNCHANGED <<hadithCollection, hadithData, out, json_files, subsection_files, summarized_dir>>

\* lines 416-419: the aggregate pass and the end of the run
UpdateStep ==
    /\ pc = "update"
    /\ hadithSection' = update_subsection_counts(hadithSection)
    /\ call' = [op |-> "update_subsection_counts"]
    /\ pc' = "done" /\ idx' = 0
    /\ UNCHANGED <<hadithCollection, hadithData, out, json_files, subsection_files, summarized_dir>>

InitMain ==
    /\ InitStore
    /\ call = NoCall /\ pc = "idle" /\ idx = 0
    /\ summarized_dir \in SummaryDirs
    /\ \E S \in SUBSET CwdNames : json_files = SortedNames(S \cup CwdSummaryNames(summarized_dir))
    /\ \E S \in SUBSET SubsectionDirNames : subsection_files = SortedNames(S)

NextMain == StartMain \/ JsonFileStep \/ SubsectionFileStep \/ UpdateStep
SpecMain == InitMain /\ [][NextMain]_vars

\* the file is one whose collection the importer cannot determine
UnresolvedDocument(name) == get_collection_id(name) = JNull
UnresolvedSubsectionFile(name) ==
    /\ get_collection_id(name) = JNull
    /\ get_collection_id(Replace(name, SubsectionJson, DotJson)) = JNull

\* a step on an unresolved document or subsection file writes nothing
UnresolvedFileSkipped ==
    /\ (call'.op = "process_hadith_data" /\ UnresolvedDocument(call'.basename))
       => (store' = store /\ call'.printed = "no_collection_id")
    /\ (call'.op = "process_subsection_file" /\ UnresolvedSubsectionFile(call'.basename))
       => (store' = store /\ call'.printed = "no_collection_id")

\* a step on a collection-info file stores its resolvable entries and no other
UnresolvedEntrySkipped ==
    (pc = "json" /\ call'.op = "process_collection_info") =>
        LET collections == Get(call'.data, "kutub_al_sittah", <<>>)
        IN  /\ \A i \in DOMAIN hadithCollection' :
                  \/ \E j \in DOMAIN hadithCollection : hadithCollection[j] = hadithCollection'[i]
                  \/ \E k \in DOMAIN collections :
                        /\ EntryId(collections[k]) # JNull
                        /\ hadithCollection'[i].id = EntryId(collections[k])
                        /\ hadithCollection'[i].title = collections[k].book_name
            /\ \A k \in DOMAIN collections :
                  EntryId(collections[k]) # JNull
                  => \E i \in DOMAIN hadithCollection' :
                        /\ hadithCollection'[i].id = EntryId(collections[k])
                        /\ hadithCollection'[i].language = call'.lang
            /\ UNCHANGED <<hadithData, hadithSection>>

\* every step of a loop goes on to the next file, the last one to the next stage, and
\* the run ends only through update_subsection_counts
RunContinues ==
    /\ (pc = "json" /\ idx < Len(json_files)) => (pc' = "json" /\ idx' = idx + 1)
    /\ (pc = "json" /\ idx = Len(json_files))
       => IF subsection_files = <<>> THEN pc' = "update" ELSE pc' = "subsection" /\ idx' = 1
    /\ (pc = "subsection" /\ idx < Len(subsection_files)) => (pc' = "subsection" /\ idx' = idx + 1)
    /\ (pc = "subsection" /\ idx = Len(subsection_files)) => pc' = "update"
    /\ pc = "update" => (pc' = "done" /\ call'.op = "update_subsection_counts")
    /\ (pc' = "done" /\ json_files # <<>>) => pc \in {"update", "done"}

RunEndsWithUpdate ==
    (pc = "done" /\ json_files # <<>>) => call.op = "update_subsection_counts"

\* C10: a document file, a subsection file or a collection-info entry whose name
\* get_collection_id cannot resolve puts no row in the store, and main() goes on to
\* every later file and to update_subsection_counts.
C10_UnresolvedRecoverable ==
    /\ [][UnresolvedFileSkipped /\ UnresolvedEntrySkipped /\ RunContinues]_vars
    /\ []RunEndsWithUpdate

\* C10 witness: a finished run that met an unresolved document, an unresolved subsection
\* file and an unresolved entry, and stored what came after each of them
C10_Witness ==
    /\ pc = "done" /\ call.op = "update_subsection_counts"
    /\ \E i \in DOMAIN json_files : json_files[i] = EngFoo
    /\ \E i \in DOMAIN subsection_files : subsection_files[i] = EngFooSubsection
    /\ \A i \in DOMAIN hadithData : hadithData[i].collectionId # JNull
    /\ \E i \in DOMAIN hadithData : hadithData[i].collectionId = JInt(2)
    /\ \E i \in DOMAIN hadithSection :
          /\ hadithSection[i].collectionId = JInt(2)
          /\ hadithSection[i].subsectionCount = JInt(1)
    /\ \E i \in DOMAIN hadithCollection : hadithCollection[i].title = JStr(Bukhari)
    /\ \A i \in DOMAIN hadithCollection : hadithCollection[i].title # JStr(Foo)

(***************************************************************************)
(* Claims about the store a complete run of main() leaves                  *)
(***************************************************************************)
RunComplete == pc = "done" /\ call.op = "update_subsection_counts"

\* C11: in the store a complete run of main() leaves, a hadithSection row has a
\* subsectionCount that is not null exactly when its parentSectionId is null.
C11_CountOnlyOnTopLevel ==
    RunComplete =>
        \A i \in DOMAIN hadithSection :
            (hadithSection[i].subsectionCount # JNull) <=> (hadithSection[i].parentSectionId = JNull)

\* C11 witness: a complete run that left a top-level section and a subsection of it
C11_Witness ==
    /\ RunComplete
    /\ \E i, j \in DOMAIN hadithSection :
          /\ hadithSection[i].parentSectionId = JNull
          /\ hadithSection[i].subsectionCount # JNull
          /\ hadithSection[j].parentSectionId = hadithSection[i].sectionId
          /\ hadithSection[j].subsectionCount = JNull

\* every top-level row's subsectionCount is the number of rows that refer to it
CountsAreLive ==
    \A i \in DOMAIN hadithSection :
        hadithSection[i].parentSectionId = JNull
        => hadithSection[i].subsectionCount = JInt(ChildrenOf(hadithSection, hadithSection[i]))

\* C12 as stated: in every committed state of the store the subsectionCount of each
\* top-level row equals the live count of the rows whose parentSectionId refers to it.
C12_CountAlwaysLive == CountsAreLive

\* C12, amended: during a run of main() every subsectionCount is null until
\* update_subsection_counts has run, and in the store the complete run leaves each
\* top-level row's subsectionCount equals the live count of the rows that refer to it.
C12_CountLiveAfterRun ==
    /\ RunComplete => CountsAreLive
    /\ ~RunComplete => \A i \in DOMAIN hadithSection : hadithSection[i].subsectionCount = JNull

\* C12 witness: a subsection has been inserted and the count of its parent is still
\* null, the aggregate pass being the next step
C12_Witness ==
    /\ pc = "update"
    /\ \E i, j \in DOMAIN hadithSection :
          /\ hadithSection[i].parentSectionId = JNull
          /\ hadithSection[j].parentSectionId = hadithSection[i].sectionId
          /\ hadithSection[i].subsectionCount = JNull

(***************************************************************************)
(* SpecReimport: documents of one collection in two languages imported     *)
(* again and again into the same store, with subsection passes and         *)
(* aggregate passes in between                                             *)
(***************************************************************************)
MaxImports == 2

IndBukhari == Ind \o Dash \o Bukhari \o DotJson
IndBukhariSubsection == Ind \o Dash \o Bukhari \o SubsectionJson

SectionTwoDetails ==
    (<<"1">> :> [hadithnumber_first |-> JInt(1), hadithnumber_last |-> JInt(1)])
    @@ (<<"2">> :> [hadithnumber_first |-> JInt(2), hadithnumber_last |-> JInt(2)])

\* each document holds one record: the number of Record rows is the number of imports
ReimportDocuments ==
    { [root |-> "dict",
       obj |-> [hadiths |-> <<OneRecord>>,
                metadata |-> MetadataOf(<< <<"1">> >>, SectionOneDetails)]],
      [root |-> "dict",
       obj |-> [hadiths |-> <<OneRecord>>,
                metadata |-> MetadataOf(<< <<"1">>, <<"2">> >>, SectionTwoDetails)]] }

ReimportSubsectionLists ==
    { <<Descriptor(JInt(1), JInt(1), JInt(1))>>, <<Descriptor(JInt(1), JInt(2), JInt(2))>> }

SubsectionRows == {i \in DOMAIN hadithSection : hadithSection[i].parentSectionId # JNull}

\* process_hadith_data(path, lang, conn) on the store as it is
Reimport(basename, doc) ==
    /\ Len(hadithData) < MaxImports
    /\ LET r == process_hadith_data(hadithData, hadithSection, basename,
                                    get_hadith_data_lang(basename), doc, <<>>)
       IN  /\ hadithData' = r.hadithData
           /\ hadithSection' = r.hadithSection
           /\ call' = [op |-> "process_hadith_data", basename |-> basename, doc |-> doc,
                       printed |-> r.printed, inserted |-> r.inserted, sections |-> r.sections]
    /\ UNCHANGED <<hadithCollection, out, mainVars>>

\* process_subsection_file(path, conn) on the store as it is
SubsectionAgain(basename, subsections_list) ==
    /\ Cardinality(SubsectionRows) < MaxImports
    /\ LET r == process_subsection_file(hadithSection, basename, subsections_list)
       IN  /\ hadithSection' = r.hadithSection
           /\ call' = [op |-> "process_subsection_file", basename |-> basename,
                       cid |-> r.cid, lang |-> r.lang, printed |-> r.printed,
                       inserted |-> r.inserted, skipped |-> r.skipped]
    /\ UNCHANGED <<hadithCollection, hadithData, out, mainVars>>

ReimportDocument ==
    \E basename \in {EngBukhari, IndBukhari}, doc \in ReimportDocuments : Reimport(basename, doc)
ResolveAgain ==
    \E basename \in {EngBukhariSubsection, IndBukhariSubsection},
       subs \in ReimportSubsectionLists : SubsectionAgain(basename, subs)

InitReimport == InitStore /\ InitIdle
NextReimport == ReimportDocument \/ ResolveAgain \/ AggregatePass
SpecReimport == InitReimport /\ [][NextReimport]_vars

\* the top-level rows of R's collection and language whose sectionId is R's parentSectionId
ParentsOf(R) ==
    {i \in DOMAIN hadithSection :
        /\ hadithSection[i].collectionId = R.collectionId
        /\ hadithSection[i].language = R.language
        /\ hadithSection[i].sectionId = R.parentSectionId
        /\ hadithSection[i].parentSectionId = JNull}

\* the sectionId of every top-level row is its own within its collection and language
TopLevelIdsDistinct ==
    \A i, j \in DOMAIN hadithSection :
        (/\ hadithSection[i].parentSectionId = JNull /\ hadithSection[j].parentSectionId = JNull
         /\ hadithSection[i].collectionId = hadithSection[j].collectionId
         /\ hadithSection[i].language = hadithSection[j].language
         /\ hadithSection[i].sectionId = hadithSection[j].sectionId) => i = j

Copies(table, v) == Cardinality({i \in DOMAIN table : table[i] = v})

\* the step is an import of call'.doc: both tables keep the rows they had, in place, and
\* gain one row per record and one top-level row per section of the document
ImportAppends ==
    (call'.op = "process_hadith_data" /\ call'.printed = "imported") =>
        LET hadiths == call'.doc.obj.hadiths
            sections == call'.doc.obj.metadata.sections
            lang == get_hadith_data_lang(call'.basename)
        IN  /\ Len(hadithData') = Len(hadithData) + Len(hadiths)
            /\ SubSeq(hadithData', 1, Len(hadithData)) = hadithData
            /\ \A i \in DOMAIN hadiths :
                  LET row == hadithData'[Len(hadithData) + i]
                  IN  /\ row.id = hadiths[i].hadithnumber
                      /\ row.text = hadiths[i].text
                      /\ row.language = lang
                      /\ Copies(hadithData', row) = Copies(hadithData, row) + 1
            /\ Len(hadithSection') = Len(hadithSection) + Len(sections)
            /\ SubSeq(hadithSection', 1, Len(hadithSection)) = hadithSection
            /\ \A i \in DOMAIN sections :
                  LET row == hadithSection'[Len(hadithSection) + i]
                  IN  /\ row.sectionId = JStr(sections[i][1])
                      /\ row.language = lang
                      /\ row.parentSectionId = JNull
                      /\ Copies(hadithSection', row) = Copies(hadithSection, row) + 1

\* C17: process_hadith_data never removes, replaces or deduplicates Record or Section
\* rows: every import leaves the rows already present unchanged and adds one more copy of
\* each Record row and each top-level Section row of the document, so n imports of a
\* document leave n copies.
C17_PureAppend == [][ImportAppends]_vars

\* C17 witness: the same document imported twice: two equal Record rows and two equal
\* top-level Section rows
C17_Witness ==
    /\ call.op = "process_hadith_data"
    /\ Len(hadithData) = 2 /\ hadithData[1] = hadithData[2]
    /\ \E i, j \in DOMAIN hadithSection :
          /\ i < j /\ hadithSection[i] = hadithSection[j]
          /\ hadithSection[i].parentSectionId = JNull

(***************************************************************************)
(* Side-fields of a record through process_hadith_data and                 *)
(* export_hadith_data (SpecDocument)                                       *)
(***************************************************************************)
SideFields == {"grades", "reference", "narration", "tldr", "narrator"}
StructuredFields == {"grades", "reference", "narration"}

ImportedDocument ==
    /\ call.op = "process_hadith_data"
    /\ call.printed = "imported"
    /\ "hadiths" \in DOMAIN call.doc.obj

\* the records of the exported file of the imported document, in file order
ExportedRecords == out[call.prev.basename].obj.hadiths

ExportedRecordsOfImport ==
    /\ ExportedAfterImport
    /\ "hadiths" \in DOMAIN call.prev.doc.obj
    /\ call.prev.basename \in DOMAIN out

\* C14: every side-field missing from the source record is stored as null, and the
\* exported record carries the side-field keys of the source record and no other.
C14_AbsentStoredNull ==
    /\ ImportedDocument =>
          \A i \in DOMAIN call.doc.obj.hadiths : \A f \in SideFields :
              f \notin DOMAIN call.doc.obj.hadiths[i] => hadithData[i][f] = JNull
    /\ ExportedRecordsOfImport =>
          {<<h.hadithnumber, DOMAIN h \cap SideFields>> : h \in Range(ExportedRecords)}
          = {<<h.hadithnumber, DOMAIN h \cap SideFields>> : h \in Range(call.prev.doc.obj.hadiths)}

Structured(x) == x.t \in {"list", "obj"}

\* C16: every grades, reference or narration that is a list or an object in the source
\* document, the empty list and the empty object included, comes back from
\* export_hadith_data after process_hadith_data as the same structure.
C16_StructuredRoundTrip ==
    ExportedRecordsOfImport =>
        LET src == call.prev.doc.obj.hadiths
        IN  /\ Len(ExportedRecords) = Len(src)
            /\ \A h \in Range(src) : \A f \in StructuredFields \cap DOMAIN h :
                  Structured(h[f]) =>
                      \E e \in Range(ExportedRecords) :
                          /\ e.hadithnumber = h.hadithnumber
                          /\ f \in DOMAIN e
                          /\ e[f] = h[f]
            /\ \A e \in Range(ExportedRecords) : \A f \in StructuredFields \cap DOMAIN e :
                  Structured(e[f]) =>
                      \E h \in Range(src) :
                          /\ h.hadithnumber = e.hadithnumber
                          /\ f \in DOMAIN h
                          /\ h[f] = e[f]

\* C16 witness: an exported document whose records carry the empty list, the empty
\* object, a list of objects and an object that nests a list
C16_Witness ==
    /\ ExportedRecordsOfImport
    /\ \E e \in Range(ExportedRecords) :
          /\ "narration" \in DOMAIN e /\ e.narration = JList(<<>>)
          /\ "reference" \in DOMAIN e /\ e.reference = JObj(<<>>)
          /\ "grades" \in DOMAIN e /\ e.grades.t = "list" /\ Len(e.grades.items) = 1
    /\ \E e \in Range(ExportedRecords) :
          /\ "reference" \in DOMAIN e /\ e.reference.t = "obj" /\ Len(e.reference.pairs) = 2

\* C15: when no summary file exists for the collection and language of a document,
\* process_hadith_data completes and stores the summary column of every record as null.
C15_MissingSummaryNull ==
    ImportedDocument =>
        /\ call.inserted = Len(call.doc.obj.hadiths)
        /\ \A i \in DOMAIN hadithData : hadithData[i].summary = JNull

(***************************************************************************)
(* reverseconverter.py: export_collection_info and export_summaries        *)
(***************************************************************************)
\* lines 53-60: the exported entry of one hadithCollection row
ExportedCollection(row) ==
    [book_name |-> row.title, author |-> row.author, real_name |-> row.realName,
     description |-> row.description, hadith_count |-> row.hadithCount]

\* lines 44-70: the loop over the first n languages of ["english", "bahasa"]
RECURSIVE ExportCollectionLoop(_, _, _, _)
ExportCollectionLoop(files, collection, langs, n) ==
    IF n = 0 THEN files
    ELSE LET before == ExportCollectionLoop(files, collection, langs, n - 1)
             lang == JStr(langs[n])
             rows == OrderBy(SelectSeq(collection, LAMBDA r : SqlEq(r.language, lang)),
                             LAMBDA r : r.id)
         IN  IF rows = <<>> THEN before
             ELSE WriteFile(before, PrefixOf(lang) \o Dash \o Collections \o DotJson,
                            [root |-> "dict",
                             obj |-> [kutub_al_sittah |->
                                        [i \in DOMAIN rows |-> ExportedCollection(rows[i])]]])

export_collection_info(files, collection) ==
    ExportCollectionLoop(files, collection, <<English, Bahasa>>, 2)

\* the filter without the test on the empty string
HasSummary_NotNull(r) == r.summary # JNull

\* lines 246 and 264: WHERE summary IS NOT NULL AND summary != ''
HasSummary(r) == r.summary # JNull /\ r.summary # JStr(<<>>)

\* lines 268-272: the exported pair of one hadithData row
ExportedSummary(row) == [hadithnumber |-> row.id, summary |-> row.summary]

\* the file of the summaries of a (collection, language), line 257
SummaryFileName(scope) ==
    SummarizedSlash \o PrefixOf(scope[2]) \o Dash \o BookNameOf(scope[1])
    \o SummarizedSuffix \o DotJson

\* lines 251-279: the loop over the first n pairs
RECURSIVE ExportSummaryLoop(_, _, _, _)
ExportSummaryLoop(files, data, combinations, n) ==
    IF n = 0 THEN files
    ELSE LET before == ExportSummaryLoop(files, data, combinations, n - 1)
             scope == combinations[n]
             book_name == BookNameOf(scope[1])
             rows == OrderBy(SelectSeq(data, LAMBDA r : InScope(r, scope) /\ HasSummary(r)),
                             LAMBDA r : r.id)
         IN  IF book_name = <<>> \/ rows = <<>> THEN before
             ELSE WriteFile(before, SummaryFileName(scope),
                            [root |-> "list",
                             items |-> [i \in DOMAIN rows |-> ExportedSummary(rows[i])]])

export_summaries(files, data) ==
    LET combinations == Scopes(SelectSeq(data, HasSummary))
    IN  ExportSummaryLoop(files, data, combinations, Len(combinations))

(***************************************************************************)
(* SpecExport: a store filled by the importer (collection info, documents  *)
(* of one collection in two languages with or without summaries, a         *)
(* subsection file, the aggregate pass), then reverseconverter.py main()   *)
(***************************************************************************)
TwoRecord == [hadithnumber |-> JInt(2), text |-> JStr(<<"y">>)]

ExportSectionDetails ==
    (<<"1">> :> [hadithnumber_first |-> JInt(1), hadithnumber_last |-> JInt(2)])
    @@ (<<"2">> :> NoDetails)
    @@ (<<"1", "0">> :> [hadithnumber_first |-> JInt(3), hadithnumber_last |-> JInt(3)])

\* a document whose records and sections are not in id order, and a document with one
\* record and one section
ExportDocuments ==
    { [root |-> "dict",
       obj |-> [hadiths |-> <<TwoRecord, OneRecord>>,
                metadata |-> MetadataOf(<< <<"2">>, <<"1", "0">>, <<"1">> >>,
                                        ExportSectionDetails)]],
      [root |-> "dict",
       obj |-> [hadiths |-> <<OneRecord>>,
                metadata |-> MetadataOf(<< <<"1">> >>, SectionOneDetails)]] }

\* summarized/eng-bukhari-summarized.json with a summary for both records, not in id order
EngBukhariBothSummaries ==
    (SummarizedSlash \o Eng \o Dash \o Bukhari \o SummarizedSuffix \o DotJson)
    :> [kind |-> "list", items |-> <<[hadithnumber |-> JInt(2), summary |-> JStr(<<"t">>)],
                                     [hadithnumber |-> JInt(1), summary |-> JStr(<<"s">>)]>>]

ExportSummaryDirs == {<<>>, EngBukhariSummaries, EngBukhariBothSummaries}

\* converter.py main(): the collection-info file of one language
SetupCollections ==
    /\ pc = "idle" /\ hadithCollection = <<>>
    /\ \E basename \in {EngCollections, IndCollections}, data \in MainCollectionFiles :
          ImportCollectionInfo(basename, data)

\* converter.py main(): a document of a language the store holds no record of
SetupDocument ==
    /\ pc = "idle"
    /\ \E basename \in {EngBukhari, IndBukhari}, doc \in ExportDocuments,
          fs \in ExportSummaryDirs :
          LET lang == get_hadith_data_lang(basename)
              r == process_hadith_data(hadithData, hadithSection, basename, lang, doc, fs)
          IN  /\ \A i \in DOMAIN hadithData : hadithData[i].language # lang
              /\ NoSubsections
              /\ hadithData' = r.hadithData
              /\ hadithSection' = r.hadithSection
              /\ call' = [op |-> "process_hadith_data", basename |-> basename, doc |-> doc,
                          printed |-> r.printed, inserted |-> r.inserted,
                          sections |-> r.sections]
    /\ UNCHANGED <<hadithCollection, out, mainVars>>

\* converter.py main(): the subsection file of the english documents
SetupSubsections ==
    /\ pc = "idle" /\ NoSubsections
    /\ SubsectionAgain(EngBukhariSubsection, <<Descriptor(JInt(1), JInt(1), JInt(2))>>)

\* converter.py main(): update_subsection_counts, once, after the subsection file
SetupCounts ==
    /\ pc = "idle" /\ call.op = "process_subsection_file"
    /\ AggregatePass

\* the store when reverseconverter.py main() started
StoreAtStart == IF pc = "idle" THEN store ELSE call.before

\* an export that empties the summary column as it goes
ExportSummariesStep_Clearing ==
    /\ pc = "export_summaries"
    /\ out' = export_summaries(out, hadithData)
    /\ hadithData' = [i \in DOMAIN hadithData |-> [hadithData[i] EXCEPT !.summary = JNull]]
    /\ pc' = "exported"
    /\ call' = [op |-> "export_summaries", before |-> StoreAtStart]
    /\ UNCHANGED <<hadithCollection, hadithSection, json_files, subsection_files,
                   summarized_dir, idx>>

\* reverseconverter.py main(), line 295: export_collection_info(conn)
ExportCollectionInfoStep ==
    /\ pc = "idle" /\ hadithData # <<>>
    /\ out' = export_collection_info(out, hadithCollection)
    /\ pc' = "export_hadith_data"
    /\ call' = [op |-> "export_collection_info", before |-> StoreAtStart]
    /\ UNCHANGED <<store, json_files, subsection_files, summarized_dir, idx>>

\* line 298: export_hadith_data(conn)
ExportHadithDataStep ==
    /\ pc = "export_hadith_data"
    /\ out' = export_hadith_data(out, hadithData, hadithSection)
    /\ pc' = "export_subsections"
    /\ call' = [op |-> "export_hadith_data", before |-> StoreAtStart]
    /\ UNCHANGED <<store, json_files, subsection_files, summarized_dir, idx>>

\* line 301: export_subsections(conn)
ExportSubsectionsStep ==
    /\ pc = "export_subsections"
    /\ out' = export_subsections(out, hadithSection)
    /\ pc' = "export_summaries"
    /\ call' = [op |-> "export_subsections", before |-> StoreAtStart]
    /\ UNCHANGED <<store, json_files, subsection_files, summarized_dir, idx>>

\* line 304: export_summaries(conn), then the connection is closed
ExportSummariesStep ==
    /\ pc = "export_summaries"
    /\ out' = export_summaries(out, hadithData)
    /\ pc' = "exported"
    /\ call' = [op |-> "export_summaries", before |-> StoreAtStart]
    /\ UNCHANGED <<store, json_files, subsection_files, summarized_dir, idx>>

InitExport == InitStore /\ InitIdle
NextExport ==
    \/ SetupCollections
    \/ SetupDocument
    \/ SetupSubsections
    \/ SetupCounts
    \/ ExportCollectionInfoStep
    \/ ExportHadithDataStep
    \/ ExportSubsectionsStep
    \/ ExportSummariesStep
SpecExport == InitExport /\ [][NextExport]_vars

Exporting == pc \in {"export_hadith_data", "export_subsections", "export_summaries", "exported"}

\* no step of the exporter changes a table
ExporterStepKeepsStore == Exporting' => store' = store

\* C18: none of export_collection_info, export_hadith_data, export_subsections and
\* export_summaries changes a row: each leaves the three tables as they were, and after
\* reverseconverter main() the tables are those it started with.
C18_ExporterReadOnly ==
    /\ [](Exporting => store = call.before)
    /\ [][ExporterStepKeepsStore]_vars

\* C18 witness: main() has finished on a store with collections, records with and
\* without a summary, sections and a subsection, and has written all four kinds of file
C18_Witness ==
    /\ pc = "exported"
    /\ hadithCollection # <<>> /\ ~NoSubsections
    /\ \E i \in DOMAIN hadithData : HasSummary(hadithData[i])
    /\ store = call.before
    /\ {EngBukhari, SubsectionSlash \o EngBukhariSubsection,
        SummaryFileName(<<JInt(1), JStr(English)>>)}
          \subseteq DOMAIN out
    /\ DOMAIN out \cap {EngCollections, IndCollections} # {}

\* the files of the combined documents export_hadith_data may write here
CombinedNames == {EngBukhari, IndBukhari}

\* the rows of hadithSection that belong to the collection and language of a file name
SectionsOfFile(basename) ==
    {i \in DOMAIN hadithSection :
        /\ hadithSection[i].collectionId = get_collection_id(basename)
        /\ hadithSection[i].language = get_hadith_data_lang(basename)}

TopLevelIds(basename) ==
    {hadithSection[i].sectionId.v : i \in {j \in SectionsOfFile(basename) :
                                                hadithSection[j].parentSectionId = JNull}}

SubsectionIds(basename) ==
    {hadithSection[i].sectionId.v : i \in {j \in SectionsOfFile(basename) :
                                                hadithSection[j].parentSectionId # JNull}}

\* C19: in every exported combined document, sections and section_details have an entry
\* for exactly the top-level Section rows of the collection and language, none for a
\* subsection row, and the entries are in ascending order of the section id (a text).
C19_MetadataFromTopLevel ==
    Exporting =>
        \A basename \in CombinedNames \cap DOMAIN out :
            LET metadata == out[basename].obj.metadata
                keys == [i \in DOMAIN metadata.sections |-> metadata.sections[i][1]]
            IN  /\ Range(keys) = TopLevelIds(basename)
                /\ DOMAIN metadata.section_details = TopLevelIds(basename)
                /\ Range(keys) \cap SubsectionIds(basename) = {}
                /\ \A i, j \in DOMAIN keys : i < j => StrLess(keys[i], keys[j])
                /\ \A i \in DOMAIN keys :
                      \E j \in SectionsOfFile(basename) :
                          /\ hadithSection[j].parentSectionId = JNull
                          /\ hadithSection[j].sectionId.v = keys[i]
                          /\ hadithSection[j].sectionTitle = metadata.sections[i][2]
                          /\ metadata.section_details[keys[i]].hadithnumber_first
                             = hadithSection[j].hadithNumberFirst

\* C19 witness: the exported english document lists the sections "1", "10", "2" in that
\* order, imported as "2", "10", "1", while the store holds the subsection "1-1"
C19_Witness ==
    /\ Exporting
    /\ EngBukhari \in DOMAIN out
    /\ Len(out[EngBukhari].obj.metadata.sections) = 3
    /\ out[EngBukhari].obj.metadata.sections[2][1] = <<"1", "0">>
    /\ <<"1", "-", "1">> \in SubsectionIds(EngBukhari)

\* the rows of hadithData of the collection and language of a file name that have a summary
SummarizedOfFile(basename) ==
    {i \in DOMAIN hadithData :
        /\ hadithData[i].collectionId = get_collection_id(basename)
        /\ hadithData[i].language = get_hadith_data_lang(basename)
        /\ hadithData[i].summary # JNull
        /\ hadithData[i].summary # JStr(<<>>)}

SummaryNameOf(basename) ==
    SummarizedSlash \o SubSeq(basename, 1, Len(basename) - Len(DotJson))
    \o SummarizedSuffix \o DotJson

\* C20: export_summaries writes the summary file of a collection and language if and only
\* if a Record row of it has a summary that is neither null nor empty; the file lists
\* those rows and no other, one {id, summary} pair per row, in ascending id order.
C20_SummaryExport ==
    pc = "exported" =>
        \A basename \in CombinedNames :
            LET name == SummaryNameOf(basename)
                rows == SummarizedOfFile(basename)
            IN  /\ name \in DOMAIN out <=> rows # {}
                /\ name \in DOMAIN out =>
                      LET items == out[name].items
                      IN  /\ Len(items) = Cardinality(rows)
                          /\ \A i \in rows :
                                \E k \in DOMAIN items :
                                    /\ items[k].hadithnumber = hadithData[i].id
                                    /\ items[k].summary = hadithData[i].summary
                          /\ \A k \in DOMAIN items :
                                /\ DOMAIN items[k] = {"hadithnumber", "summary"}
                                /\ items[k].summary # JNull /\ items[k].summary # JStr(<<>>)
                          /\ \A k, l \in DOMAIN items :
                                k < l => items[k].hadithnumber.n < items[l].hadithnumber.n

\* C20 witness: the english file lists the summaries of the records 1 and 2, imported as
\* 2 then 1, and the bahasa records, all without a summary, have no file
C20_Witness ==
    /\ pc = "exported"
    /\ SummaryNameOf(EngBukhari) \in DOMAIN out
    /\ Len(out[SummaryNameOf(EngBukhari)].items) = 2
    /\ hadithData[1].id = JInt(2)
    /\ \E i \in DOMAIN hadithData :
          hadithData[i].language = JStr(Bahasa) /\ hadithData[i].summary = JStr(<<>>)
    /\ SummaryNameOf(IndBukhari) \notin DOMAIN out

(***************************************************************************)
(* SpecSummaries: a document imported into the empty store while the three *)
(* places load_summaries looks at hold a readable summary file, a file     *)
(* that cannot be loaded, or nothing                                       *)
(***************************************************************************)
\* what a summary path may hold: a list keyed by "hadithnumber", a list keyed by "id",
\* a file json.load fails on; tag tells the files apart
SummaryContents(tag) ==
    { [kind |-> "list", items |-> <<[hadithnumber |-> JInt(1), summary |-> JStr(tag)]>>],
      [kind |-> "list", items |-> <<[id |-> JInt(2), summary |-> JStr(tag)],
                                    [hadithnumber |-> JInt(1), summary |-> JStr(<<>>)]>>],
      [kind |-> "corrupt"] }

PathTags == << <<"a">>, <<"b">>, <<"c">> >>

\* the file systems over the three paths of a language prefix and a book
SummaryFileSystems(lang_prefix, book_name) ==
    LET paths == possible_paths(lang_prefix, book_name)
    IN  UNION { { [p \in {paths[i] : i \in present} |->
                      content[CHOOSE i \in present : paths[i] = p]] :
                    content \in [present -> UNION {SummaryContents(PathTags[i]) : i \in 1..3}] } :
                present \in SUBSET (1..3) }

SummaryDocuments ==
    { [root |-> "list", items |-> <<OneRecord>>],
      [root |-> "list", items |-> <<TwoRecord, OneRecord>>] }

\* process_hadith_data(path, lang, conn) on the empty store, with the summary files fs
ImportWithSummaries ==
    /\ hadithData = <<>> /\ call = NoCall
    /\ \E basename \in {EngBukhari, IndBukhari}, doc \in SummaryDocuments :
          LET lang == get_hadith_data_lang(basename)
          IN  \E fs \in SummaryFileSystems(lang_prefixes[lang.v], Bukhari) :
                LET r == process_hadith_data(hadithData, hadithSection, basename, lang, doc, fs)
                IN  /\ hadithData' = r.hadithData
                    /\ hadithSection' = r.hadithSection
                    /\ call' = [op |-> "process_hadith_data", basename |-> basename,
                                doc |-> doc, fs |-> fs, printed |-> r.printed,
                                inserted |-> r.inserted, sections |-> r.sections]
    /\ UNCHANGED <<hadithCollection, out, mainVars>>

InitSummaries == InitStore /\ InitIdle
NextSummaries == ImportWithSummaries
SpecSummaries == InitSummaries /\ [][NextSummaries]_vars

\* the paths of the call, in the order of the search
PathsOfCall ==
    possible_paths(lang_prefixes[get_hadith_data_lang(call.basename).v], Bukhari)

\* the first path that exists, 0 when none does
FirstExisting ==
    LET here == {i \in 1..3 : PathsOfCall[i] \in DOMAIN call.fs}
    IN  IF here = {} THEN 0 ELSE CHOOSE i \in here : \A j \in here : i <= j

\* the summary the file holds for the record id, the empty text when it holds none
SummaryIn(file, id) ==
    IF file.kind # "list" THEN JStr(<<>>)
    ELSE LET hits == {k \in DOMAIN file.items :
                        /\ PyStr(PyOr(Get(file.items[k], "hadithnumber", JNull),
                                      Get(file.items[k], "id", JNull))) = PyStr(id)
                        /\ Truthy(Get(file.items[k], "summary", JStr(<<>>)))}
         IN  IF hits = {} THEN JStr(<<>>)
             ELSE file.items[CHOOSE k \in hits : \A l \in hits : l <= k].summary

\* C21: the summaries attached to the records of an import come from the first existing
\* file of the fixed order and from no later one, matched on the record's hadithnumber
\* as a string.
C21_FirstFoundWins ==
    call.op = "process_hadith_data" =>
        \A i \in DOMAIN hadithData :
            hadithData[i].summary =
                IF FirstExisting = 0 THEN JStr(<<>>)
                ELSE SummaryIn(call.fs[PathsOfCall[FirstExisting]], hadithData[i].id)

(***************************************************************************)
(* The shape of a document in converter.py main() (SpecMain)               *)
(***************************************************************************)
\* the step calls process_hadith_data on a file whose collection is known
DocumentStep ==
    /\ pc = "json"
    /\ call'.op = "process_hadith_data"
    /\ ~UnresolvedDocument(call'.basename)

\* the rows a table gained in the step
Gained(before, after) == SubSeq(after, Len(before) + 1, Len(after))

\* the step treats the document of the call by the shape of its root
ShapeDecides ==
    DocumentStep =>
        LET doc == call'.doc
        IN  /\ SubSeq(hadithData', 1, Len(hadithData)) = hadithData
            /\ SubSeq(hadithSection', 1, Len(hadithSection)) = hadithSection
            /\ hadithCollection' = hadithCollection
            /\ doc.root = "other" =>
                  /\ store' = store
                  /\ call'.printed = "unknown_structure"
            /\ doc.root = "list" =>
                  /\ Len(hadithData') = Len(hadithData) + Len(doc.items)
                  /\ \A i \in DOMAIN doc.items :
                        Gained(hadithData, hadithData')[i].id = doc.items[i].hadithnumber
                  /\ hadithSection' = hadithSection
            /\ doc.root = "dict" =>
                  /\ Len(hadithData') = Len(hadithData) + Len(doc.obj.hadiths)
                  /\ \A i \in DOMAIN doc.obj.hadiths :
                        Gained(hadithData, hadithData')[i].id = doc.obj.hadiths[i].hadithnumber
                  /\ Len(hadithSection') = Len(hadithSection) + Len(doc.obj.metadata.sections)
                  /\ \A i \in DOMAIN doc.obj.metadata.sections :
                        LET row == Gained(hadithSection, hadithSection')[i]
                        IN  /\ row.sectionId = JStr(doc.obj.metadata.sections[i][1])
                            /\ row.parentSectionId = JNull
            /\ <<pc', idx'>> = AfterJsonFile

\* C22: a document whose root is neither a list nor an object inserts nothing, leaves the
\* store unchanged and main() goes on with the next file; a list gives one Record row per
\* element and no Section row; an object gives the records of its record list and the
\* top-level sections of its metadata.
C22_ShapeInferred == [][ShapeDecides]_vars

\* C22 witness: after a document was imported, one with an unknown root was skipped and
\* the run is going on
C22_Witness ==
    /\ call.op = "process_hadith_data"
    /\ ~UnresolvedDocument(call.basename)
    /\ call.doc.root = "other"
    /\ hadithData # <<>>
    /\ pc \in {"subsection", "update"}

(***************************************************************************)
(* The stages of converter.py main() (SpecMain)                            *)
(***************************************************************************)
TopLevelRows(section) == SelectSeq(section, LAMBDA r : r.parentSectionId = JNull)
ChildRows(section) == SelectSeq(section, LAMBDA r : r.parentSectionId # JNull)

\* the sectionId, collection and language of the rows, without the counts the update sets
Identities(rows) ==
    [i \in DOMAIN rows |-> <<rows[i].collectionId, rows[i].language, rows[i].sectionId>>]

\* every step of main() stays in the order documents, subsection files, update
StagesInOrder ==
    /\ Identities(TopLevelRows(hadithSection')) # Identities(TopLevelRows(hadithSection))
          => pc = "json"
    /\ call'.op = "process_hadith_data" => pc = "json"
    /\ call'.op = "process_subsection_file" => pc = "subsection"
    /\ ChildRows(hadithSection') # ChildRows(hadithSection) => pc = "subsection"
    /\ pc \in {"subsection", "update", "done"} => pc' # "json"
    /\ pc \in {"update", "done"} => pc' # "subsection"
    /\ call'.op = "update_subsection_counts" => (pc = "update" /\ pc' = "done")
    /\ pc = "update" => call'.op = "update_subsection_counts"
    /\ pc \in {"update", "done"} => Len(hadithSection') = Len(hadithSection)
    /\ pc = "done" => pc' = "done"

\* C23 as stated: in every run of main() update_subsection_counts runs, once and last:
\* a run that has ended has ended with it.
C23_UpdateInEveryRun == pc = "done" => call.op = "update_subsection_counts"

\* C23, amended: in every run of main() that finds a JSON file in the working directory,
\* every top-level Section row is inserted before the first subsection file is
\* processed, every subsection row before update_subsection_counts, and
\* update_subsection_counts runs exactly once, last; a run that finds no JSON file
\* returns at once, without the update.
C23_StageOrdering ==
    /\ [](pc = "done" => IF json_files = <<>>
                         THEN call.op = "main" /\ hadithSection = <<>>
                         ELSE call.op = "update_subsection_counts")
    /\ [][StagesInOrder]_vars

\* C23 witness: the run is over after documents, a subsection file that attached a
\* subsection, and the update
C23_Witness ==
    /\ pc = "done"
    /\ call.op = "update_subsection_counts"
    /\ TopLevelRows(hadithSection) # <<>>
    /\ ChildRows(hadithSection) # <<>>
    /\ hadithData # <<>>

(***************************************************************************)
(* The frame of update_subsection_counts (SpecReimport)                    *)
(***************************************************************************)
\* a Section row without its subsectionCount
WithoutCount(r) == [r EXCEPT !.subsectionCount = JNull]

\* a step of update_subsection_counts writes the subsectionCount of top-level rows only
AggregateFrame ==
    call'.op = "update_subsection_counts" =>
        /\ DOMAIN hadithSection' = DOMAIN hadithSection
        /\ \A i \in DOMAIN hadithSection :
              /\ WithoutCount(hadithSection'[i]) = WithoutCount(hadithSection[i])
              /\ hadithSection[i].parentSectionId # JNull =>
                    /\ hadithSection'[i] = hadithSection[i]
                    /\ hadithSection'[i].subsectionCount = JNull
        /\ hadithData' = hadithData
        /\ hadithCollection' = hadithCollection

\* C24: update_subsection_counts changes only the subsectionCount of the Section rows
\* whose parentSectionId is null: it inserts and deletes no row, leaves every other
\* column of every row as it was, leaves the subsectionCount of subsection rows null and
\* does not touch hadithData or hadithCollection.
C24_AggregateFrame == [][AggregateFrame]_vars

\* C24 witness: the update has counted a subsection of one section and none of another
\* section, next to records
C24_Witness ==
    /\ call.op = "update_subsection_counts"
    /\ hadithData # <<>>
    /\ \E i, j, k \in DOMAIN hadithSection :
          /\ hadithSection[i].subsectionCount = JInt(1)
          /\ hadithSection[j].subsectionCount = JInt(0)
          /\ hadithSection[k].parentSectionId # JNull
          /\ hadithSection[k].subsectionCount = JNull

(***************************************************************************)
(* SpecOverlap: one document whose sections span the records 10 to 30,     *)
(* then one subsection file with a descriptor around the bound 20          *)
(***************************************************************************)
Bounds(first, last) == [hadithnumber_first |-> JInt(first), hadithnumber_last |-> JInt(last)]

\* a single section [10,20]; the sections [10,20] and [21,30]; a single section [10,18];
\* the sections "1" and "1-1"
OverlapDocuments ==
    { [root |-> "dict",
       obj |-> [hadiths |-> <<OneRecord>>,
                metadata |-> MetadataOf(<< <<"1">>, <<"1", "-", "1">> >>,
                                        (<<"1">> :> Bounds(10, 20))
                                        @@ (<<"1", "-", "1">> :> Bounds(21, 30)))]] } \cup
    { [root |-> "dict",
       obj |-> [hadiths |-> <<OneRecord>>,
                metadata |-> MetadataOf(<< <<"1">> >>, (<<"1">> :> Bounds(10, 20)))]],
      [root |-> "dict",
       obj |-> [hadiths |-> <<OneRecord>>,
                metadata |-> MetadataOf(<< <<"1">>, <<"2">> >>,
                                        (<<"1">> :> Bounds(10, 20)) @@ (<<"2">> :> Bounds(21, 30)))]],
      [root |-> "dict",
       obj |-> [hadiths |-> <<OneRecord>>,
                metadata |-> MetadataOf(<< <<"1">> >>, (<<"1">> :> Bounds(10, 18)))]] }

OverlapFirsts == {JInt(9), JInt(19), JInt(25)}
OverlapLasts == {JInt(15), JInt(22), JInt(30), JNull}

OverlapImport ==
    \E basename \in {EngBukhari, IndBukhari}, doc \in OverlapDocuments :
        ImportDocument(basename, doc, <<>>)

\* files with one descriptor, and a file with the fileIndex 1 as a number and as a string
OverlapSubsectionLists ==
    {<<Descriptor(JInt(1), first, last)>> : first \in OverlapFirsts, last \in OverlapLasts}
    \cup {<<Descriptor(JInt(1), JInt(19), JInt(20)), Descriptor(JStr(<<"1">>), JInt(19), JInt(20))>>}

OverlapPass ==
    \E basename \in {EngBukhariSubsection, IndBukhariSubsection},
       subsections_list \in OverlapSubsectionLists :
        /\ hadithSection # <<>>
        /\ SubsectionPass(basename, subsections_list)

InitOverlap == InitStore /\ InitIdle
NextOverlap == OverlapImport \/ OverlapPass
SpecOverlap == InitOverlap /\ [][NextOverlap]_vars

\* the pass met the single top-level section [10,20] of its collection and language
\* with the descriptor [19,22]
OverlapExample ==
    /\ IsPass
    /\ Len(TopLevelOf(call)) = 1
    /\ TopLevelOf(call)[1].hadithNumberFirst = JInt(10)
    /\ TopLevelOf(call)[1].hadithNumberLast = JInt(20)
    /\ Len(call.log) = 1
    /\ DescFirst(call.log[1].sub) = JInt(19)
    /\ DescLast(call.log[1].sub) = JInt(22)

\* C25: with the single top-level section [10,20] and the descriptor [19,22],
\* process_subsection_file attaches the descriptor to that section, and the match comes
\* from the fallback query, not from the containment query.
C25_AttachedViaOverlap ==
    OverlapExample =>
        /\ AttachedTo(call.log[1].sub, TopLevelOf(call)[1])
        /\ call.log[1].via = "fallback"
        /\ call.log[1].queries = 2

\* the ranges of the section P and of the descriptor have a record number in common
SharesRecord(P, sub) ==
    /\ P.hadithNumberFirst # JNull /\ P.hadithNumberLast # JNull
    /\ DescFirst(sub) # JNull /\ DescLast(sub) # JNull
    /\ \E x \in 0..(MaxHadithNumber + 1) :
          /\ P.hadithNumberFirst.n <= x /\ x <= P.hadithNumberLast.n
          /\ DescFirst(sub).n <= x /\ x <= DescLast(sub).n

\* C26: whenever process_subsection_file attaches a descriptor to a top-level section,
\* the range of the section and the range of the descriptor share a record number; a
\* descriptor with hadithNumberFirst > hadithNumberLast or without hadithNumberLast is
\* attached only to a section that contains its hadithNumberFirst.
C26_NoOverMatching ==
    IsPass =>
        \A i \in DOMAIN call.log :
            call.log[i].done = "inserted" =>
                LET sub == call.log[i].sub
                    row == hadithSection[call.log[i].row]
                    tops == TopLevelOf(call)
                IN  \A k \in DOMAIN tops :
                        tops[k].sectionId = row.parentSectionId =>
                            IF DescLast(sub) = JNull \/ DescFirst(sub).n > DescLast(sub).n
                            THEN RangeContains(tops[k], DescFirst(sub))
                            ELSE SharesRecord(tops[k], sub)

(***************************************************************************)
(* The files converter.py main() hands to process_hadith_data (SpecMain)   *)
(***************************************************************************)
\* the file is one load_summaries reads as a summary source in this run
SummarySource(name) == name \in DOMAIN summarized_dir

\* C27: in a run of main(), no summary source, subsection descriptor file or
\* collection-info file is passed to process_hadith_data, and none produces a Record row.
C27_OnlyDocumentsImported ==
    call.op = "process_hadith_data" =>
        /\ ~SummarySource(call.basename)
        /\ ~EndsWith(call.basename, SubsectionJson)
        /\ call.basename \notin {EngCollections, IndCollections}

(***************************************************************************)
(* SpecNames: the names reverseconverter.py gives its files, read back by  *)
(* the functions converter.py resolves names with                         *)
(***************************************************************************)
FileKinds == {"document", "subsection", "summary"}

\* the path the exporter writes the file of a kind for a (collection, language) to
ExportedPath(scope, kind) ==
    CASE kind = "document" -> DocumentFileName(scope)
      [] kind = "subsection" -> SubsectionFileName(scope)
      [] kind = "summary" -> SummaryFileName(scope)

\* os.path.basename(path)
RECURSIVE Basename(_)
Basename(path) ==
    IF \E i \in DOMAIN path : path[i] = "/"
    THEN Basename(SubSeq(path, (CHOOSE i \in DOMAIN path : path[i] = "/" /\ \A j \in 1..(i - 1) : path[j] # "/") + 1,
                         Len(path)))
    ELSE path

\* the exporter names the file of a kind for a collection and a language it knows
ExporterNamesFile ==
    /\ call = NoCall
    /\ \E c \in DOMAIN COLLECTION_NAMES, l \in DOMAIN LANG_PREFIXES, kind \in FileKinds :
          call' = [op |-> "open", cid |-> c, lang |-> l, kind |-> kind,
                   path |-> ExportedPath(<<JInt(c), JStr(l)>>, kind)]
    /\ UNCHANGED <<store, out, mainVars>>

\* the importer resolves the name of that file: converter.py lines 201-202, 272-280, 397-399
ImporterResolvesName ==
    /\ call.op = "open"
    /\ LET name == Basename(call.path)
       IN  call' = [op |-> "resolve", cid |-> call.cid, lang |-> call.lang,
                    kind |-> call.kind, name |-> name,
                    ret |-> get_collection_id(name), ret_lang |-> get_hadith_data_lang(name)]
    /\ UNCHANGED <<store, out, mainVars>>

InitNames == InitStore /\ InitIdle
NextNames == ExporterNamesFile \/ ImporterResolvesName \/ CallGetCollectionId
SpecNames == InitNames /\ [][NextNames]_vars

\* C28: the names the exporter writes for a collection c of COLLECTION_NAMES and a
\* language l of LANG_PREFIXES are resolved by get_collection_id to c and by
\* get_hadith_data_lang to l, and every id get_collection_id returns is a key of
\* COLLECTION_NAMES and of book_names.
C28_NamesRoundTrip ==
    /\ call.op = "resolve" =>
          /\ call.ret = JInt(call.cid)
          /\ call.ret_lang = JStr(call.lang)
    /\ (call.op = "get_collection_id" /\ call.ret # JNull) =>
          /\ call.ret.n \in DOMAIN COLLECTION_NAMES
          /\ call.ret.n \in DOMAIN book_names
    /\ DOMAIN COLLECTION_NAMES = DOMAIN book_names
    /\ \A c \in DOMAIN COLLECTION_NAMES : COLLECTION_NAMES[c] = book_names[c]

\* C28 witness: the summary file of riyadussalihin in bahasa, written under summarized/
\* with the prefix "ind", was resolved to the collection 10 and to bahasa
C28_Witness ==
    /\ call.op = "resolve"
    /\ call.kind = "summary"
    /\ call.cid = 10 /\ call.lang = Bahasa
    /\ call.name = Ind \o Dash \o RiyadusSalihin \o SummarizedSuffix \o DotJson
    /\ call.ret = JInt(10) /\ call.ret_lang = JStr(Bahasa)

(***************************************************************************)
(* The ids process_subsection_file makes up (SpecOverlap)                  *)
(***************************************************************************)
\* the rows of the table that belong to the collection and language of the pass
ScopeRows(table) ==
    {i \in DOMAIN table : table[i].collectionId = call.cid /\ table[i].language = call.lang}

DistinctSectionIds(table) ==
    \A i, j \in ScopeRows(table) : table[i].sectionId = table[j].sectionId => i = j

DistinctFileIndexes ==
    \A i, j \in DOMAIN call.log :
        call.log[i].sub.fileIndex = call.log[j].sub.fileIndex => i = j

\* C29: after one pass of process_subsection_file over descriptors with pairwise distinct
\* fileIndex values, against top-level sections with pairwise distinct sectionIds, the
\* Section rows of the collection and language have pairwise distinct sectionIds.
C29_UniqueIds ==
    (IsPass /\ DistinctFileIndexes /\ DistinctSectionIds(call.before))
        => DistinctSectionIds(hadithSection)

(***************************************************************************)
(* The sections export_hadith_data writes (SpecDocument)                   *)
(***************************************************************************)
\* the section ids listed in the sections and section_details blocks of the written files
ExportedSectionIds ==
    UNION { {out[name].obj.metadata.sections[i][1] :
                i \in DOMAIN out[name].obj.metadata.sections}
            \cap DOMAIN out[name].obj.metadata.section_details : name \in DOMAIN out }

\* C30: after an import, every top-level Section row of a known collection is listed in
\* the sections and section_details of a combined document written by
\* export_hadith_data, also when its collection and language have no Record row.
C30_EverySectionExported ==
    call.op = "export_hadith_data" =>
        \A i \in DOMAIN hadithSection :
            (hadithSection[i].parentSectionId = JNull
             /\ BookNameOf(hadithSection[i].collectionId) # <<>>)
                => hadithSection[i].sectionId.v \in ExportedSectionIds

====
